---- MODULE Spec2Model ----
(***************************************************************************)
(* Model of Sketch_Create.curveChain (src/EasyFusionAPI.py) and of the     *)
(* helpers it calls.  One curveChain call is followed from the conversion  *)
(* of the caller's list to the return of the segment list, one loop        *)
(* iteration per step.  The host sketch is the sequences points, curves    *)
(* and constraints (an object's handle is its index) and hostLog, the      *)
(* sequence of calls made to the host.                                     *)
(*                                                                         *)
(* Coordinates are integer triples <<x, y, z>>; Point3D.isEqualTo is exact *)
(* equality on them and distances are compared by their squares.  The host *)
(* creates every line it is asked for when the arguments are points and    *)
(* raises a TypeError when an argument is no point.  It creates the arc    *)
(* through three points unless they lie on one straight line (two of them  *)
(* coinciding included), which it refuses.  A vector stands for its        *)
(* direction: a unit vector is the shortest integer vector of the same     *)
(* direction, and the offset of 100*smallNumber of a guess point is kept   *)
(* as a count of smallNumber, taken as smaller than any distance between   *)
(* two input points.                                                       *)
(***************************************************************************)
EXTENDS Integers, Sequences, FiniteSets, TLC

VARIABLES
    pc,            \* position of the call: call, lines, arcs, cleanup, done, fault
    fault,         \* the exception raised, "none" while there is none
    pointList,     \* the caller's list (converted in place by the call)
    argList,       \* the value of the caller's list when the call was made
    close,         \* the close argument, "None" for None
    ptList,        \* curveChain local: the points of the chain
    cmdList,       \* curveChain local: 'l' / 'a' per segment
    crvList,       \* curveChain local: curve handles, 0 for the 'arc' placeholder
    fixedPtList,   \* curveChain local: handles of the points recorded as fixed
    prevLine,      \* curveChain local: handle of the last line of the line pass
    line,          \* curveChain local: the variable line (kept into the arc pass)
    i,             \* curveChain local: loop index of the running pass, 1-based
    points,        \* host: sketch points [geom, fixed]
    curves,        \* host: sketch curves [kind, start, end, gbase, gsel]
    constraints,   \* host: geometric constraints [kind, a, b]
    hostLog,       \* host: calls received, in order [op, x, y]
    halfIsLong,    \* host: length/(2*PI*radius) > 0.5 holds for an arc of half a circle
    firstCall,     \* the outcome of an earlier call with the same arguments
    vecCall,       \* the last call of a Sketch_Vector predicate and its result
    userParams,    \* the user parameters of the design and the calls that made them
    ezFeatures,    \* the EZFeatures instances and the last call made on one
    apiCall,       \* the last call of a Sketch_Get / Sketch_Constrain method and its outcome
    caseRun        \* a run of Case.buildCase: its position, arguments and calls made

vars == <<pc, fault, pointList, argList, close, ptList, cmdList, crvList, fixedPtList,
          prevLine, line, i, points, curves, constraints, hostLog,
          halfIsLong, firstCall, vecCall, userParams, ezFeatures, apiCall, caseRun>>

\* the state of the parts of the library curveChain does not touch
others == <<vecCall, userParams, ezFeatures, apiCall, caseRun>>

\* what no step of a call changes
frame == <<close, argList, halfIsLong, firstCall, others>>

\* the state of a curveChain call and of its sketch
chainVars == <<pc, fault, pointList, argList, close, ptList, cmdList, crvList,
               fixedPtList, prevLine, line, i, points, curves, constraints, hostLog,
               halfIsLong, firstCall>>

-----------------------------------------------------------------------------
(* Bounds of the explored inputs *)

\* largest number of points of a well-formed list (points with optional markers)
MaxPts == 4
\* largest length of a free-form list (any element kinds, any arrangement)
MaxFlat == 3

\* coordinates used by the inputs
Coords == {<<0, 0, 0>>, <<1, 0, 0>>, <<1, 1, 0>>}
\* coordinate of the sketch point that exists before the call
PreCoord == <<1, 0, 0>>

-----------------------------------------------------------------------------
(* Elements of a point list *)

\* nn is the set of the indices of a tuple's components that are no numbers
P3D(c) == [t |-> "p3d", c |-> c, s |-> "", id |-> 0, nn |-> {}]
Tup(c) == [t |-> "tuple", c |-> c, s |-> "", id |-> 0, nn |-> {}]
TupN(c, nn) == [t |-> "tuple", c |-> c, s |-> "", id |-> 0, nn |-> nn]
Skp(h) == [t |-> "skp", c |-> <<>>, s |-> "", id |-> h, nn |-> {}]
Str(s) == [t |-> "str", c |-> <<>>, s |-> s, id |-> 0, nn |-> {}]
Num == [t |-> "num", c |-> <<>>, s |-> "", id |-> 0, nn |-> {}]

\* mutant of Lower: the marker is compared as written
Lower_asWritten(s) == s

\* str.lower() on the marker strings of the inputs
Lower(s) ==
    CASE s = "A" -> "a"
      [] s = "Arc" -> "arc"
      [] s = "ARC" -> "arc"
      [] OTHER -> s

\* Python's lst[-1]
PyLast(lst) == lst[Len(lst)]

-----------------------------------------------------------------------------
(* UtilityOperations.tuple2Point3d / handleObjectList2Points *)

\* mutant of TupleOk: only the length of the tuple is looked at
TupleOk_lengthOnly(e) == Len(e.c) \in {2, 3}

\* lines 1599-1612: every component is a number and there are 2 or 3 of them
TupleOk(e) == e.nn = {} /\ Len(e.c) \in {2, 3}

\* the exception of tuple2Point3d: the components are looked at before the length
TupleFault(e) == IF e.nn /= {} THEN "TupleType" ELSE "TupleLength"

\* mutant of tuple2Point3d: the third number of a tuple is dropped
tuple2Point3d_flat(tpl) == P3D(<<tpl[1], tpl[2], 0>>)

tuple2Point3d(tpl) ==
    IF Len(tpl) = 2 THEN P3D(<<tpl[1], tpl[2], 0>>) ELSE P3D(<<tpl[1], tpl[2], tpl[3]>>)

\* index of the first tuple that cannot be converted, 0 when there is none
FirstBadTuple(lst) ==
    LET bad == {j \in 1..Len(lst) : lst[j].t = "tuple" /\ ~TupleOk(lst[j])}
    IN IF bad = {} THEN 0 ELSE CHOOSE j \in bad : \A k \in bad : j <= k

\* the list after the in-place conversion; it stops at the first bad tuple
handleObjectList2Points(lst) ==
    LET b == FirstBadTuple(lst)
    IN [j \in 1..Len(lst) |->
          IF lst[j].t = "tuple" /\ (b = 0 \/ j < b)
          THEN tuple2Point3d(lst[j].c) ELSE lst[j]]

-----------------------------------------------------------------------------
(* Input parsing of curveChain *)

IsArcMarker(s) == Lower(s) = "a" \/ Lower(s) = "arc"

\* the command appended for the point at index j (j < Len(pts))
CmdAfter(pts, j) ==
    IF pts[j + 1].t = "str"
    THEN (IF IsArcMarker(pts[j + 1].s) THEN "a" ELSE "l")
    ELSE "l"

RECURSIVE ParseLoop(_, _, _, _)
\* the loop over range(len(pts)-1): j is the 1-based index, pl and cl the lists so far
ParseLoop(pts, j, pl, cl) ==
    IF j > Len(pts) - 1 THEN [pl |-> pl, cl |-> cl]
    ELSE IF pts[j].t = "p3d"
         THEN ParseLoop(pts, j + 1, Append(pl, pts[j]), Append(cl, CmdAfter(pts, j)))
         ELSE ParseLoop(pts, j + 1, pl, cl)

IsArcClose(c) == c = "a" \/ c = "arc"

\* ptList and cmdList as they stand before the first-command check
ParsePts(pts, c) ==
    LET r == ParseLoop(pts, 1, <<>>, <<>>)
        withLast == IF PyLast(pts).t = "p3d" THEN Append(r.pl, PyLast(pts)) ELSE r.pl
    IN IF c /= "None" THEN Append(withLast, pts[1]) ELSE withLast

ParseCmds(pts, c) ==
    LET r == ParseLoop(pts, 1, <<>>, <<>>)
    IN IF c /= "None"
       THEN Append(r.cl, IF IsArcClose(c) THEN "a" ELSE "l")
       ELSE r.cl

\* mutant of FirstCommandOk: the check of line 828 is missing
FirstCommandOk_unchecked(cl) == TRUE

\* line 828: the first command must be a line
FirstCommandOk(cl) == cl[1] = "l"

-----------------------------------------------------------------------------
(* Sketch_Get helpers *)

IsPoint(e) == e.t = "p3d" \/ e.t = "skp"

\* Sketch_Get.point3d on a Point3D or a SketchPoint element
point3d(e) == IF e.t = "skp" THEN points[e.id].geom ELSE e.c

SqDist(p, q) ==
    (p[1] - q[1]) * (p[1] - q[1]) + (p[2] - q[2]) * (p[2] - q[2])
      + (p[3] - q[3]) * (p[3] - q[3])

arePontsCoincident(g1, g2) == g1 = g2

\* g is a coordinate, lst a sequence of sketch point handles, pts the sketch points
isPointInList(g, lst, pts) ==
    \E j \in 1..Len(lst) : arePontsCoincident(pts[lst[j]].geom, g)

\* mutant of orderCurveEndsByDist: the distances are compared with <
orderCurveEndsByDist_strict(crv, g, pts) ==
    IF SqDist(pts[crv.start].geom, g) < SqDist(pts[crv.end].geom, g)
    THEN <<crv.start, crv.end>>
    ELSE <<crv.end, crv.start>>

\* <<nearer end, farther end>> of curve crv with respect to coordinate g,
\* as sketch points (returnSketchPoint = True, lines 364-367)
orderCurveEndsByDist(crv, g, pts) ==
    IF SqDist(pts[crv.start].geom, g) <= SqDist(pts[crv.end].geom, g)
    THEN <<crv.start, crv.end>>
    ELSE <<crv.end, crv.start>>

\* the same with returnSketchPoint = False (lines 358-362): the coordinates
orderCurveEndsByDist3d(crv, g, pts) ==
    LET pt1 == pts[crv.start].geom
        pt2 == pts[crv.end].geom
    IN IF SqDist(pt1, g) <= SqDist(pt2, g) THEN <<pt1, pt2>> ELSE <<pt2, pt1>>

-----------------------------------------------------------------------------
(* Inputs *)

Markers == {"a", "Arc"}
FlatElems ==
    {P3D(<<0, 0, 0>>), P3D(<<1, 1, 0>>), Tup(<<1, 0>>), Tup(<<0>>), TupN(<<0, 0>>, {2}),
     Skp(1), Num, Str("a"), Str("x")}
\* "ARC" is no arc value for close: line 822 compares it as written
CloseValues == {"None", "l", "a", "arc", "ARC"}

RECURSIVE Interleave(_, _, _)
\* the list of the points cs with marker ms[j] ("" for none) after point j
Interleave(cs, ms, j) ==
    IF j > Len(cs) THEN <<>>
    ELSE <<P3D(cs[j])>>
         \o (IF j < Len(cs) /\ ms[j] /= "" THEN <<Str(ms[j])>> ELSE <<>>)
         \o Interleave(cs, ms, j + 1)

WellFormedLists ==
    UNION {{Interleave(cs, ms, 1) : cs \in [1..n -> Coords],
                                   ms \in [1..(n - 1) -> Markers \cup {""}]}
           : n \in 2..MaxPts}

FlatLists == UNION {[1..m -> FlatElems] : m \in 0..MaxFlat}

\* coordinates of the chains of a line and two arcs
GeoCoords == Coords \cup {<<2, 1, 0>>}
ArcChains ==
    {<<P3D(a), P3D(b), Str("a"), P3D(c), Str("a"), P3D(d)>> : a, b, c, d \in GeoCoords}

\* lists of tuples of two and of three numbers: a line and an arc, and a
\* tuple off the sketch plane followed by a tuple that cannot be converted
TupCoords == {<<0, 0>>, <<1, 0>>, <<1, 1, 0>>, <<0, 1, 0>>}
TupleLists ==
    {<<Tup(a), Tup(b), Str("a"), Tup(c)>> : a, b, c \in TupCoords}
      \cup {<<Tup(<<0, 1, 1>>), e>> : e \in {Tup(<<0>>), TupN(<<0, 0>>, {1})}}

\* the number of arcs a list and a close value ask for at most
ArcAsks(lst, c) ==
    Cardinality({j \in 1..Len(lst) : lst[j].t = "str" /\ IsArcMarker(lst[j].s)})
      + (IF IsArcClose(c) THEN 1 ELSE 0)

\* no call has been made before this one; f is the fixed flag of the sketch
\* point that exists before the call
NoCall(f) ==
    [made |-> FALSE, preFixed |-> f, pc |-> "", fault |-> "", crvList |-> <<>>,
     points |-> <<>>, curves |-> <<>>, constraints |-> <<>>, hostLog |-> <<>>]

\* a sketch that holds one sketch point and nothing else
FreshSketch(f) == <<[geom |-> PreCoord, fixed |-> f]>>

HasKind(lst, k) == \E j \in 1..Len(lst) : lst[j].t = k

\* no Sketch_Vector predicate has been called
NoVecCall == [op |-> "none", v1 |-> <<0, 0>>, v2 |-> <<0, 0>>, result |-> FALSE]

\* a design without user parameters, before any create_UserParameter call
NoUserParams ==
    [items |-> <<>>, initial |-> <<>>, dict |-> <<>>, calls |-> <<>>, ret |-> 0,
     lenBefore |-> 0]

\* no EZFeatures instance has been made
NoFeatures ==
    [insts |-> <<>>, made |-> 0,
     last |-> [op |-> "none", inst |-> 0, raised |-> FALSE, ret |-> 0, before |-> <<>>]]

\* no method of Sketch_Get or Sketch_Constrain has been called
NoApiCall == [op |-> "none"]

\* buildCase has not been called
NoCaseRun == [pc |-> "idle"]

\* the rest of the library is idle while curveChain is followed
OthersIdle ==
    /\ vecCall = NoVecCall
    /\ userParams = NoUserParams
    /\ ezFeatures = NoFeatures
    /\ apiCall = NoApiCall
    /\ caseRun = NoCaseRun

\* no curveChain call is made
ChainIdle ==
    /\ pc = "idle"
    /\ fault = "none"
    /\ pointList = <<>>
    /\ argList = <<>>
    /\ close = "None"
    /\ ptList = <<>>
    /\ cmdList = <<>>
    /\ crvList = <<>>
    /\ fixedPtList = <<>>
    /\ prevLine = 0
    /\ line = 0
    /\ i = 0
    /\ points = <<>>
    /\ curves = <<>>
    /\ constraints = <<>>
    /\ hostLog = <<>>
    /\ halfIsLong = FALSE
    /\ firstCall = NoCall(FALSE)

Init ==
    /\ OthersIdle
    /\ pc = "call"
    /\ fault = "none"
    /\ pointList \in WellFormedLists \cup FlatLists \cup ArcChains \cup TupleLists
    /\ argList = pointList
    /\ close \in CloseValues
    /\ ptList = <<>>
    /\ cmdList = <<>>
    /\ crvList = <<>>
    /\ fixedPtList = <<>>
    /\ prevLine = 0
    /\ line = 0
    /\ i = 0
    /\ \E f \in (IF HasKind(pointList, "skp") THEN BOOLEAN ELSE {FALSE}) :
          /\ points = FreshSketch(f)
          /\ firstCall = NoCall(f)
    /\ curves = <<>>
    /\ constraints = <<>>
    /\ hostLog = <<>>
    /\ halfIsLong \in (IF ArcAsks(pointList, close) >= 2 THEN BOOLEAN ELSE {FALSE})

-----------------------------------------------------------------------------
(* curveChain, lines 799-829: conversion, parsing, first-command check *)

\* mutant of Raise: the exception is caught and the recorded points are released
Raise_thenRelease(f) == pc' = "cleanup" /\ fault' = f

\* an exception leaves curveChain: nothing in curveChain catches it
Raise(f) == pc' = "fault" /\ fault' = f

CallFault(pts) ==
    IF FirstBadTuple(pointList) /= 0 THEN TupleFault(pointList[FirstBadTuple(pointList)])
    ELSE IF Len(pts) = 0 THEN "IndexError"
    ELSE IF Len(ParseCmds(pts, close)) = 0 THEN "IndexError"
    ELSE IF ~FirstCommandOk(ParseCmds(pts, close)) THEN "FirstNotLine"
    ELSE "none"

Call ==
    /\ pc = "call"
    /\ LET pts == handleObjectList2Points(pointList)
           f == CallFault(pts)
       IN /\ pointList' = pts
          /\ IF FirstBadTuple(pointList) /= 0 \/ Len(pts) = 0
             THEN UNCHANGED <<ptList, cmdList>>
             ELSE /\ ptList' = ParsePts(pts, close)
                  /\ cmdList' = ParseCmds(pts, close)
          /\ IF f /= "none"
             THEN Raise(f) /\ i' = i
             ELSE pc' = "lines" /\ i' = 1 /\ fault' = fault
    /\ UNCHANGED <<frame, crvList, fixedPtList, prevLine, line,
                   points, curves, constraints, hostLog>>

-----------------------------------------------------------------------------
(* Host sketch operations *)

NewPoint(g) == [geom |-> g, fixed |-> FALSE]
LogEntry(op, x, y) == [op |-> op, x |-> x, y |-> y]

\* sketch points after the host took element e as an end of a new curve:
\* a Point3D gets a new sketch point, a SketchPoint is reused
HostEndPoints(pts, e) == IF e.t = "skp" THEN pts ELSE Append(pts, NewPoint(e.c))
HostEndHandle(pts, e) == IF e.t = "skp" THEN e.id ELSE Len(pts) + 1

\* a guess point: the point org + dir * (mag * |v| + eps * smallNumber), where
\* dir is a unit vector and |v| the length of the line the guess is taken from
GuessPoint(org, dir, mag, eps) == [org |-> org, dir |-> dir, mag |-> mag, eps |-> eps]
NoGuess == GuessPoint(<<0, 0, 0>>, <<0, 0>>, 0, 0)

NewLine(s, e) ==
    [kind |-> "line", start |-> s, end |-> e, gbase |-> 0, gsel |-> 0, guess |-> NoGuess]
\* mutant of NewArc: the host makes a line between the end points
NewArc_asLine(s, e, gb, gs, g) == NewLine(s, e)

\* the arc from s to e through the guess point g
NewArc(s, e, gb, gs, g) ==
    [kind |-> "arc", start |-> s, end |-> e, gbase |-> gb, gsel |-> gs, guess |-> g]

SetFixed(pts, h, v) == [pts EXCEPT ![h].fixed = v]

\* position after iteration i of a pass over a list of length n
StepOn(n, nextPc) ==
    IF i = n THEN pc' = nextPc /\ i' = 1 ELSE pc' = pc /\ i' = i + 1

-----------------------------------------------------------------------------
(* curveChain, lines 833-853: the line pass *)

\* the fault that stops iteration i of the line pass before the host creates
\* the line, "none" when there is none
LineFault ==
    IF i + 1 > Len(ptList) THEN "IndexError"
    ELSE IF ~IsPoint(ptList[i]) \/ ~IsPoint(ptList[i + 1]) THEN "TypeError"
    ELSE "none"

\* mutant of HasPrev: the first two lines are taken to have no predecessor
HasPrev_offByOne(k) == k > 2

\* line 844, i > 0: iteration k (1-based) has a previous line
HasPrev(k) == k > 1

\* mutant of ClosingLine: the index of the last command is taken one too far
ClosingLine_offByOne(k, n, c) == k = n /\ c /= "None"

\* line 848: iteration k (1-based) is the last command of a closed chain,
\* n is len(ptList)
ClosingLine(k, n, c) == k = n - 1 /\ c /= "None"

\* mutant of AppendLine: the line is put at the front of crvList
AppendLine_front(lst, h) == <<h>> \o lst

\* line 846: crvList.append(line)
AppendLine(lst, h) == Append(lst, h)

LineCmd ==
    /\ pc = "lines"
    /\ cmdList[i] = "l"
    /\ LineFault = "none"
    /\ LET pt1 == ptList[i]
           pt2 == ptList[i + 1]
           \* self.line(pt1, pt2)
           s == HostEndHandle(points, pt1)
           ptsA == HostEndPoints(points, pt1)
           e == HostEndHandle(ptsA, pt2)
           ptsB == HostEndPoints(ptsA, pt2)
           lid == Len(curves) + 1
           crvs == Append(curves, NewLine(s, e))
           logA == Append(hostLog, LogEntry("line", lid, 0))
           \* lines 838-843
           in1 == isPointInList(point3d(pt1), fixedPtList, ptsB)
           fl1 == IF in1 THEN fixedPtList ELSE Append(fixedPtList, s)
           ptsC == IF in1 THEN ptsB ELSE SetFixed(ptsB, s, TRUE)
           logB == IF in1 THEN logA ELSE Append(logA, LogEntry("fix", s, 1))
           in2 == isPointInList(point3d(pt2), fl1, ptsC)
           fl2 == IF in2 THEN fl1 ELSE Append(fl1, e)
           ptsD == IF in2 THEN ptsC ELSE SetFixed(ptsC, e, TRUE)
           logC == IF in2 THEN logB ELSE Append(logB, LogEntry("fix", e, 1))
       IN /\ points' = ptsD
          /\ curves' = crvs
          /\ fixedPtList' = fl2
          /\ line' = lid
          /\ IF HasPrev(i) /\ prevLine = 0
             THEN \* prevLine.endSketchPoint with prevLine None
                  /\ Raise("AttributeError")
                  /\ hostLog' = logC
                  /\ UNCHANGED <<constraints, crvList, prevLine, i>>
             ELSE LET coin == HasPrev(i) /\ arePontsCoincident(ptsD[s].geom,
                                                          ptsD[crvs[prevLine].end].geom)
                      pe == IF HasPrev(i) THEN crvs[prevLine].end ELSE 0
                      consA == IF coin
                               THEN Append(constraints, [kind |-> "coin", a |-> s, b |-> pe])
                               ELSE constraints
                      logD == IF coin THEN Append(logC, LogEntry("coin", s, pe)) ELSE logC
                      crvL == AppendLine(crvList, lid)
                      closing == ClosingLine(i, Len(ptList), close)
                  IN /\ crvList' = crvL
                     /\ prevLine' = lid
                     /\ IF closing /\ crvL[1] = 0
                        THEN \* crvList[0] is still the 'arc' placeholder
                             /\ Raise("AttributeError")
                             /\ constraints' = consA
                             /\ hostLog' = logD
                             /\ i' = i
                        ELSE IF closing
                        THEN LET g0 == point3d(ptList[1])
                                 int1 == orderCurveEndsByDist(crvs[lid], g0, ptsD)[1]
                                 int2 == orderCurveEndsByDist(crvs[crvL[1]], g0, ptsD)[1]
                             IN /\ constraints' =
                                      Append(consA, [kind |-> "coin", a |-> int1, b |-> int2])
                                /\ hostLog' = Append(logD, LogEntry("coin", int1, int2))
                                /\ StepOn(Len(cmdList), "arcs")
                                /\ fault' = fault
                        ELSE /\ constraints' = consA
                             /\ hostLog' = logD
                             /\ StepOn(Len(cmdList), "arcs")
                             /\ fault' = fault
    /\ UNCHANGED <<pointList, frame, ptList, cmdList>>

\* ptList[i+1] past the end of ptList, or the host refusing an end that is no point
LineRaise ==
    /\ pc = "lines"
    /\ cmdList[i] = "l"
    /\ LineFault /= "none"
    /\ Raise(LineFault)
    /\ UNCHANGED <<pointList, frame, ptList, cmdList, crvList, fixedPtList, prevLine,
                   line, i, points, curves, constraints, hostLog>>

\* line 853: crvList.append('arc')
LinePlaceholder ==
    /\ pc = "lines"
    /\ cmdList[i] /= "l"
    /\ crvList' = Append(crvList, 0)
    /\ StepOn(Len(cmdList), "arcs")
    /\ UNCHANGED <<fault, pointList, frame, ptList, cmdList, fixedPtList, prevLine,
                   line, points, curves, constraints, hostLog>>

-----------------------------------------------------------------------------
(* curveChain, lines 854-959: the arc pass *)

\* Sketch_Vector.fromPoints on two sketch points: only x and y are read
fromPoints(g1, g2) == <<g2[1] - g1[1], g2[2] - g1[2]>>

\* mutant of unitVectorFails: a vector of magnitude 0 is normalized without a fault
unitVectorFails_never(v) == FALSE

\* Sketch_Vector.unitVector divides by the magnitude
unitVectorFails(v) == v = <<0, 0>>

dotProduct(v1, v2) == v1[1] * v2[1] + v1[2] * v2[2]
crossProduct(v1, v2) == v1[1] * v2[2] - v1[2] * v2[1]
scaleVector(vect, scale) == <<vect[1] * scale, vect[2] * scale>>

Abs(x) == IF x < 0 THEN -x ELSE x

RECURSIVE Gcd(_, _)
Gcd(a, b) == IF b = 0 THEN a ELSE Gcd(b, a % b)

\* Sketch_Vector.unitVector: the vector of the same direction and of unit
\* length, here the shortest integer vector of that direction
unitVector(vect) ==
    LET g == Gcd(Abs(vect[1]), Abs(vect[2]))
    IN IF g = 0 THEN vect ELSE <<vect[1] \div g, vect[2] \div g>>

\* Sketch_Vector.perpendicularUnitVector: vect turned clockwise by a right angle
perpendicularUnitVector(vect) == unitVector(<<vect[2], -vect[1]>>)

-----------------------------------------------------------------------------
(* The arc the host holds: it leaves its start point in the direction of the *)
(* guess point and ends on its end point.                                   *)

ArcChord(arc, pts) == fromPoints(pts[arc.start].geom, pts[arc.end].geom)

\* positive: the arc runs counter-clockwise from its start to its end,
\* negative: clockwise
ArcTurn(arc, pts) == crossProduct(arc.guess.dir, ArcChord(arc, pts))

\* arc.centerSketchPoint, its coordinates multiplied by 2 * ArcTurn
CentreScaled(arc, pts) ==
    LET k == 2 * ArcTurn(arc, pts)
        c == ArcChord(arc, pts)
        d == arc.guess.dir
        p == pts[arc.start].geom
    IN <<k * p[1] - dotProduct(c, c) * d[2], k * p[2] + dotProduct(c, c) * d[1]>>

\* fromPoints(arc.centerSketchPoint, pt) for a point pt at coordinate g, as a
\* direction
fromCentre(arc, g, pts) ==
    LET k == 2 * ArcTurn(arc, pts)
        cs == CentreScaled(arc, pts)
        v == <<k * g[1] - cs[1], k * g[2] - cs[2]>>
    IN unitVector(IF k > 0 THEN v ELSE scaleVector(v, -1))

\* line 907, arc.length / (PI * arc.radius * 2) > 0.5: the arc is longer than
\* half its circle; on an arc of half a circle the quotient is 0.5 up to the
\* rounding of the host
ArcIsLong(arc, pts) ==
    LET dc == dotProduct(arc.guess.dir, ArcChord(arc, pts))
    IN dc < 0 \/ (dc = 0 /\ halfIsLong)

\* lines 923-924: how A1 = sweptAngle(startVect, gVect1) compares with
\* A = sweptAngle(startVect, endVect); gVect1 is endVect turned clockwise
\* by the small angle the offset of the first guess point makes
SweptCompare(startVect, endVect) ==
    LET x == crossProduct(startVect, endVect)
    IN IF x < 0 THEN "gt"
       ELSE IF x > 0 THEN "lt"
       ELSE IF dotProduct(startVect, endVect) < 0 THEN "lt" ELSE "gt"

\* the host has no arc through three points of one straight line: start point,
\* guess point (at a small offset of the start point) and end point
ThreePointsCollinear(startG, g, endG) ==
    crossProduct(g.dir, fromPoints(startG, endG)) = 0

\* Python's crvList[i-1] for the 1-based index i: index 0-1 wraps to the last element
PrevIndex(lst) == IF i = 1 THEN Len(lst) ELSE i - 1

PrevIsLine == i > 1 /\ crvList[i - 1] /= 0 /\ curves[crvList[i - 1]].kind = "line"

\* mutant of EndFromFirst: only the long spelling of the close value is known
EndFromFirst_longOnly(c) == c = "arc"

\* lines 872 and 939: the last arc ends on the start point of the first curve
EndFromFirst(c) == c = "arc" \/ c = "a"

\* mutant of TangentPartnerAfterArc: the variable line is taken for the previous arc
TangentPartnerAfterArc_line(prevArc, lineVar) == lineVar

\* line 958: the curve the new arc is constrained tangent to
TangentPartnerAfterArc(prevArc, lineVar) == prevArc

\* the point the fixed flag is set on when the end point of a last arc is recorded
\* (lines 877 and 944)
LastArcFixTarget(endPoint, lineVar) == curves[lineVar].end

\* the point the fixed flag is set on when the end point of an inner arc is recorded
\* (lines 885 and 952)
InnerArcFixTarget(endPoint, lineVar) == endPoint

\* lines 871-886 and 938-953: the end point of the arc of iteration i.
\* lineVar is the value of the variable line.  The result holds the fault
\* ("none" when there is none), the end point handle ep and the sketch points,
\* fixedPtList and host log after the step.
ArcEndPoint(lineVar) ==
    LET isLast == i = Len(crvList)
        fromCurve == IF isLast THEN EndFromFirst(close) ELSE crvList[i + 1] /= 0
        src == IF isLast THEN crvList[1] ELSE crvList[i + 1]
        e == IF isLast THEN PyLast(ptList) ELSE ptList[i + 1]
        ep == Len(points) + 1
        ptsA == Append(points, NewPoint(e.c))
        logA == Append(hostLog, LogEntry("point", ep, 0))
        seen == isPointInList(e.c, fixedPtList, ptsA)
        tgt == IF isLast THEN LastArcFixTarget(ep, lineVar)
                         ELSE InnerArcFixTarget(ep, lineVar)
    IN IF fromCurve
       THEN IF src = 0
            THEN [fault |-> "AttributeError", ep |-> 0, pts |-> points,
                  fl |-> fixedPtList, log |-> hostLog]
            ELSE [fault |-> "none", ep |-> curves[src].start, pts |-> points,
                  fl |-> fixedPtList, log |-> hostLog]
       ELSE IF e.t /= "p3d"
            THEN [fault |-> "TypeError", ep |-> 0, pts |-> points,
                  fl |-> fixedPtList, log |-> hostLog]
            ELSE IF seen
            THEN [fault |-> "none", ep |-> ep, pts |-> ptsA,
                  fl |-> fixedPtList, log |-> logA]
            ELSE [fault |-> "none", ep |-> ep, pts |-> SetFixed(ptsA, tgt, TRUE),
                  fl |-> Append(fixedPtList, ep),
                  log |-> Append(logA, LogEntry("fix", tgt, 1))]

\* lines 889-891 and 955-959: create the arc, constrain it, store it; or raise
FinishArc(r, startPt, prevCrv, gsel, g) ==
    IF r.fault /= "none"
    THEN /\ Raise(r.fault)
         /\ UNCHANGED <<crvList, fixedPtList, i, points, curves, constraints, hostLog>>
    ELSE IF ThreePointsCollinear(r.pts[startPt].geom, g, r.pts[r.ep].geom)
    THEN \* addByThreePoints raises; the end point of the arc may have been made
         /\ Raise("HostError")
         /\ points' = r.pts
         /\ fixedPtList' = r.fl
         /\ hostLog' = r.log
         /\ UNCHANGED <<crvList, i, curves, constraints>>
    ELSE LET aid == Len(curves) + 1
         IN /\ curves' = Append(curves, NewArc(startPt, r.ep, startPt, gsel, g))
            /\ points' = r.pts
            /\ fixedPtList' = r.fl
            /\ constraints' = Append(constraints, [kind |-> "tan", a |-> aid, b |-> prevCrv])
            /\ hostLog' = Append(Append(r.log, LogEntry("arc", aid, 0)),
                                 LogEntry("tan", aid, prevCrv))
            /\ crvList' = [crvList EXCEPT ![i] = aid]
            /\ StepOn(Len(crvList), "cleanup")
            /\ fault' = fault

\* an entry of crvList that is a line: nothing to do
ArcSkip ==
    /\ pc = "arcs"
    /\ crvList[i] /= 0
    /\ StepOn(Len(crvList), "cleanup")
    /\ UNCHANGED <<fault, pointList, frame, ptList, cmdList, crvList, fixedPtList,
                   prevLine, line, points, curves, constraints, hostLog>>

\* mutant of LineGuess: the length of the line is not added to the offset
LineGuess_offsetOnly(lineStartG, vect) == GuessPoint(lineStartG, unitVector(vect), 0, 100)

\* lines 864-868: the guess point of an arc after a line, lineStart moved along
\* the line by its length and 100 * smallNumber more
LineGuess(lineStartG, vect) == GuessPoint(lineStartG, unitVector(vect), 1, 100)

\* lines 856-891: the previous curve is a line
ArcAfterLine ==
    /\ pc = "arcs"
    /\ crvList[i] = 0
    /\ PrevIsLine
    /\ LET ln == crvList[i - 1]
           ends == orderCurveEndsByDist(curves[ln], point3d(ptList[i]), points)
           lineEnd == ends[1]
           lineStart == ends[2]
           vect == fromPoints(points[lineStart].geom, points[lineEnd].geom)
       IN /\ line' = ln
          /\ IF unitVectorFails(vect)
             THEN /\ Raise("ZeroDivisionError")
                  /\ UNCHANGED <<crvList, fixedPtList, i, points, curves,
                                 constraints, hostLog>>
             ELSE FinishArc(ArcEndPoint(ln), lineEnd, ln, 0,
                            LineGuess(points[lineStart].geom, vect))
    /\ UNCHANGED <<pointList, frame, ptList, cmdList, prevLine>>

\* lines 926-935: which of the two guess points is taken (1 or 2), from
\* rev (the previous arc is longer than half its circle) and the comparison
\* of the swept angles A1 and A
GuessChoice(rev, cmp) ==
    IF rev THEN (IF cmp = "lt" THEN 1 ELSE 2)
           ELSE (IF cmp = "gt" THEN 1 ELSE 2)

\* lines 892-959: the previous curve is an arc
ArcAfterArc ==
    /\ pc = "arcs"
    /\ crvList[i] = 0
    /\ ~PrevIsLine
    /\ LET prevArc == crvList[PrevIndex(crvList)]
       IN IF prevArc = 0 \/ curves[prevArc].kind /= "arc"
          THEN /\ Raise("AttributeError")
               /\ UNCHANGED <<crvList, fixedPtList, i, points, curves,
                              constraints, hostLog>>
          ELSE LET ends == orderCurveEndsByDist(curves[prevArc],
                                                point3d(ptList[i]), points)
                   prevEndPt == ends[1]
                   prevStartPt == ends[2]
                   startVect == fromCentre(curves[prevArc], points[prevStartPt].geom, points)
                   endVect == fromCentre(curves[prevArc], points[prevEndPt].geom, points)
                   rev == ArcIsLong(curves[prevArc], points)
                   perpVect == perpendicularUnitVector(endVect)
                   guessPointOnAcr1 == GuessPoint(points[prevEndPt].geom, perpVect, 0, 100)
                   guessPointOnAcr2 ==
                       GuessPoint(points[prevEndPt].geom, scaleVector(perpVect, -1), 0, 100)
                   gsel == GuessChoice(rev, SweptCompare(startVect, endVect))
               IN FinishArc(ArcEndPoint(line), prevEndPt,
                            TangentPartnerAfterArc(prevArc, line), gsel,
                            IF gsel = 1 THEN guessPointOnAcr1 ELSE guessPointOnAcr2)
    /\ UNCHANGED <<pointList, frame, ptList, cmdList, prevLine, line>>

-----------------------------------------------------------------------------
(* curveChain, lines 961-964: release the recorded points and return *)

RECURSIVE ReleaseAll(_, _)
ReleaseAll(pts, fl) ==
    IF fl = <<>> THEN pts ELSE ReleaseAll(SetFixed(pts, Head(fl), FALSE), Tail(fl))

ReleaseLog(fl) == [j \in 1..Len(fl) |-> LogEntry("fix", fl[j], 0)]

Cleanup ==
    /\ pc = "cleanup"
    /\ points' = ReleaseAll(points, fixedPtList)
    /\ hostLog' = hostLog \o ReleaseLog(fixedPtList)
    /\ pc' = "done"
    /\ UNCHANGED <<fault, pointList, frame, ptList, cmdList, crvList, fixedPtList,
                   prevLine, line, i, curves, constraints>>

Next ==
    \/ Call
    \/ LineCmd
    \/ LineRaise
    \/ LinePlaceholder
    \/ ArcSkip
    \/ ArcAfterLine
    \/ ArcAfterArc
    \/ Cleanup

Spec == Init /\ [][Next]_vars

-----------------------------------------------------------------------------
(* A second call of curveChain with the same arguments on a sketch of its own *)

\* mutant of OwnSketch: the second call draws in the sketch of the first
OwnSketch_shared(f) == points

\* the sketch of the second call: a new EZSketch, in the state the sketch of the
\* first call was in before the call
OwnSketch(f) == FreshSketch(f)

\* the first call is over; its outcome is kept and curveChain is called again,
\* with the list object of the first call or with an equal list
SecondCall ==
    /\ pc \in {"done", "fault"}
    /\ ~firstCall.made
    /\ firstCall' = [made |-> TRUE, preFixed |-> firstCall.preFixed, pc |-> pc,
                     fault |-> fault, crvList |-> crvList, points |-> points,
                     curves |-> curves, constraints |-> constraints,
                     hostLog |-> hostLog]
    /\ pc' = "call"
    /\ fault' = "none"
    /\ pointList' \in {pointList, argList}
    /\ ptList' = <<>>
    /\ cmdList' = <<>>
    /\ crvList' = <<>>
    /\ fixedPtList' = <<>>
    /\ prevLine' = 0
    /\ line' = 0
    /\ i' = 0
    /\ points' = OwnSketch(firstCall.preFixed)
    /\ curves' = <<>>
    /\ constraints' = <<>>
    /\ hostLog' = <<>>
    /\ UNCHANGED <<close, argList, halfIsLong, others>>

SpecTwice == Init /\ [][Next \/ SecondCall]_vars
-----------------------------------------------------------------------------
(* Sketch_Vector.arePerpendicular and areParallel.  The components of the   *)
(* vectors they are called with are multiples of 0.001, so that a product   *)
(* of two vectors is a multiple of smallNumber = 1e-6, and products are     *)
(* counted in that unit.                                                    *)

smallNumber == 1

VecComps == {-1000, -1, 0, 1, 2}
Vectors == VecComps \X VecComps

\* mutant of arePerpendicular: the size of the product is compared
arePerpendicular_abs(v1, v2) == Abs(dotProduct(v1, v2)) <= smallNumber

\* lines 500-503
arePerpendicular(v1, v2) == dotProduct(v1, v2) <= smallNumber

\* lines 514-517
areParallel(v1, v2) == crossProduct(v1, v2) <= smallNumber

InitVector ==
    /\ ChainIdle
    /\ OthersIdle

CallArePerpendicular ==
    /\ \E v1, v2 \in Vectors :
          vecCall' = [op |-> "arePerpendicular", v1 |-> v1, v2 |-> v2,
                      result |-> arePerpendicular(v1, v2)]
    /\ UNCHANGED <<chainVars, userParams, ezFeatures, apiCall, caseRun>>

CallAreParallel ==
    /\ \E v1, v2 \in Vectors :
          vecCall' = [op |-> "areParallel", v1 |-> v1, v2 |-> v2,
                      result |-> areParallel(v1, v2)]
    /\ UNCHANGED <<chainVars, userParams, ezFeatures, apiCall, caseRun>>

NextVector == CallArePerpendicular \/ CallAreParallel

SpecVector == InitVector /\ [][NextVector]_vars

-----------------------------------------------------------------------------
(* EZFusionAPI.create_UserParameter and getUserParameterNames.  The host    *)
(* design holds the user parameters in the order they were added; add       *)
(* takes every name and every expression.                                   *)

\* largest number of create_UserParameter calls
MaxCalls == 3

ParamNames == {"width", "height"}

\* the expression argument: a number or a string
NumExpr(n) == [t |-> "num", n |-> n, s |-> ""]
StrExpr(e) == [t |-> "str", n |-> 0, s |-> e]
Expressions == {NumExpr(3), NumExpr(5), StrExpr("3"), StrExpr("5 mm")}

\* str() on the numbers of Expressions
PyStr(n) == CASE n = 3 -> "3" [] n = 5 -> "5" [] OTHER -> "?"

\* lines 81-82: the expression as a string
ExpressionString(e) == IF e.t = "str" THEN e.s ELSE PyStr(e.n)

\* lines 103-107: the dictionary from the names to the item numbers; of two
\* items of one name the later one stays
getUserParameterNames(items) ==
    [n \in {items[j].name : j \in 1..Len(items)} |->
        CHOOSE j \in 1..Len(items) :
            /\ items[j].name = n
            /\ \A k \in 1..Len(items) : items[k].name = n => k <= j]

\* mutant of NameKnown: no name is found in the dictionary
NameKnown_never(name, dict) == FALSE

\* line 85: name in self._userParamDict
NameKnown(name, dict) == name \in DOMAIN dict

\* the design holds nothing, or one parameter made by hand
InitialItems == {<<>>, <<[name |-> "height", expression |-> "1 mm"]>>}

InitParams ==
    /\ ChainIdle
    /\ vecCall = NoVecCall
    /\ ezFeatures = NoFeatures
    /\ apiCall = NoApiCall
    /\ caseRun = NoCaseRun
    /\ \E it \in InitialItems :
          userParams = [items |-> it, initial |-> it, dict |-> getUserParameterNames(<<>>),
                        calls |-> <<>>, ret |-> 0, lenBefore |-> 0]

create_UserParameter ==
    /\ Len(userParams.calls) < MaxCalls
    /\ \E name \in ParamNames, e \in Expressions :
          LET expression == ExpressionString(e)
              items == userParams.items
              dict == getUserParameterNames(items)
              known == NameKnown(name, dict)
              itemsA == IF known
                        THEN [items EXCEPT ![dict[name]].expression = expression]
                        ELSE Append(items, [name |-> name, expression |-> expression])
          IN userParams' =
                [items |-> itemsA,
                 initial |-> userParams.initial,
                 dict |-> IF known THEN dict ELSE getUserParameterNames(itemsA),
                 calls |-> Append(userParams.calls, [name |-> name, expression |-> e]),
                 ret |-> IF known THEN dict[name] ELSE Len(itemsA),
                 lenBefore |-> Len(items)]
    /\ UNCHANGED <<chainVars, vecCall, ezFeatures, apiCall, caseRun>>

NextParams == create_UserParameter

SpecParams == InitParams /\ [][NextParams]_vars

-----------------------------------------------------------------------------
(* EZFeatures: Features_Create.extrude and revolve, Features_modify.fillet  *)
(* and shell.  A host feature is the rank of its creation, 0 stands for     *)
(* None.  The host makes every feature it is asked for.                     *)

\* largest number of EZFeatures instances
MaxInst == 3

\* the components a profile, an edge or a face can belong to
Components == {"root", "comp1"}

\* EZFeatures.__init__ (lines 1228-1235); privType is the attribute
\* _featureType, pubType the attribute featureType, parent the attribute
\* _parentComponent; the last two are not set by __init__
NewEZFeatures ==
    [feature |-> 0, privType |-> "None", pubType |-> "unset", parent |-> "unset"]

\* mutant of checkForExistingFeatrue: it never raises
checkForExistingFeatrue_never(feature) == FALSE

\* lines 1570-1572: raises when the instance has a feature
checkForExistingFeatrue(feature) == feature /= 0

LastCall(op, k, raised, ret) ==
    [op |-> op, inst |-> k, raised |-> raised, ret |-> ret, before |-> ezFeatures.insts]

InitFeatures ==
    /\ ChainIdle
    /\ OthersIdle

\* EZFeatures()
MakeInstance ==
    /\ Len(ezFeatures.insts) < MaxInst
    /\ ezFeatures' = [insts |-> Append(ezFeatures.insts, NewEZFeatures),
                      made |-> ezFeatures.made,
                      last |-> LastCall("new", 0, FALSE, Len(ezFeatures.insts) + 1)]
    /\ UNCHANGED <<chainVars, vecCall, userParams, apiCall, caseRun>>

\* extrude and revolve on instance k with a profile of component comp:
\* _primaryFeatureChecks, then the feature of the host is stored
PrimaryFeature(op, k, comp) ==
    IF checkForExistingFeatrue(ezFeatures.insts[k].feature)
    THEN ezFeatures' = [ezFeatures EXCEPT !.last = LastCall(op, k, TRUE, 0)]
    ELSE /\ ezFeatures.made < 2 * MaxInst
         /\ ezFeatures' =
               [insts |-> [ezFeatures.insts EXCEPT
                             ![k] = [feature |-> ezFeatures.made + 1, privType |-> op,
                                     pubType |-> @.pubType, parent |-> comp]],
                made |-> ezFeatures.made + 1,
                last |-> LastCall(op, k, FALSE, ezFeatures.made + 1)]

extrude ==
    /\ \E k \in 1..Len(ezFeatures.insts), comp \in Components :
          PrimaryFeature("extrude", k, comp)
    /\ UNCHANGED <<chainVars, vecCall, userParams, apiCall, caseRun>>

revolve ==
    /\ \E k \in 1..Len(ezFeatures.insts), comp \in Components :
          PrimaryFeature("revolve", k, comp)
    /\ UNCHANGED <<chainVars, vecCall, userParams, apiCall, caseRun>>

\* fillet and shell called on instance k with edges or faces of component
\* comp: a new instance is made and _create_Fillet / _create_Shell run on it
DerivativeFeature(op, k, comp) ==
    /\ Len(ezFeatures.insts) < MaxInst
    /\ ezFeatures.made < 2 * MaxInst
    /\ ezFeatures' =
          [insts |-> Append(ezFeatures.insts,
                            [feature |-> ezFeatures.made + 1, privType |-> "None",
                             pubType |-> op, parent |-> comp]),
           made |-> ezFeatures.made + 1,
           last |-> LastCall(op, k, FALSE, Len(ezFeatures.insts) + 1)]

fillet ==
    /\ \E k \in 1..Len(ezFeatures.insts), comp \in Components :
          DerivativeFeature("fillet", k, comp)
    /\ UNCHANGED <<chainVars, vecCall, userParams, apiCall, caseRun>>

shell ==
    /\ \E k \in 1..Len(ezFeatures.insts), comp \in Components :
          DerivativeFeature("shell", k, comp)
    /\ UNCHANGED <<chainVars, vecCall, userParams, apiCall, caseRun>>

NextFeatures == MakeInstance \/ extrude \/ revolve \/ fillet \/ shell

SpecFeatures == InitFeatures /\ [][NextFeatures]_vars

-----------------------------------------------------------------------------
(* Sketch_Get.slopeBetweenPoints, slopeOfLine and areLinesParallel.  A      *)
(* sketch line is its two end points; a slope is the fraction num / den of  *)
(* two integers, or infinite; the difference of two slopes is compared      *)
(* with smallNumber exactly.                                                *)

GridCoords == {<<x, y, 0>> : x, y \in 0..2}
SketchLines ==
    {[start |-> a, end |-> b] : a, b \in GridCoords}
      \ {[start |-> a, end |-> a] : a \in GridCoords}

\* 1 / smallNumber
SmallNumberInv == 1000000

\* lines 277-290
slopeBetweenPoints(pt1, pt2) ==
    IF pt1[1] = pt2[1]
    THEN [inf |-> TRUE, num |-> 0, den |-> 1]
    ELSE LET dx == pt2[1] - pt1[1]
             dy == pt2[2] - pt1[2]
         IN [inf |-> FALSE, num |-> IF dx < 0 THEN -dy ELSE dy, den |-> dx]

\* line 297
slopeOfLine(ln) == slopeBetweenPoints(ln.start, ln.end)

\* lines 305-313; abs(s1 - s2) is infinite when one slope only is infinite
areLinesParallel(line1, line2) ==
    LET s1 == slopeOfLine(line1)
        s2 == slopeOfLine(line2)
    IN IF s1.inf /\ s2.inf THEN TRUE
       ELSE IF s1.inf \/ s2.inf THEN FALSE
       ELSE Abs(s1.num * s2.den - s2.num * s1.den) * SmallNumberInv < Abs(s1.den * s2.den)

InitParallel ==
    /\ ChainIdle
    /\ OthersIdle

CallAreLinesParallel ==
    /\ apiCall = NoApiCall
    /\ \E line1, line2 \in SketchLines :
          apiCall' = [op |-> "areLinesParallel", line1 |-> line1, line2 |-> line2,
                      result |-> areLinesParallel(line1, line2)]
    /\ UNCHANGED <<chainVars, vecCall, userParams, ezFeatures, caseRun>>

NextParallel == CallAreLinesParallel

SpecParallel == InitParallel /\ [][NextParallel]_vars

-----------------------------------------------------------------------------
(* Sketch_Get.point3d called with a tuple.  An element of the tuple is an   *)
(* integer, a float (that is no whole number) or a string.                  *)

\* largest length of a tuple
MaxTupLen == 4

IntElem(n) == [k |-> "int", v |-> n]
FloatElem == [k |-> "float", v |-> 0]
StrElem == [k |-> "str", v |-> 0]
TupElems == {IntElem(-1), IntElem(0), IntElem(1), IntElem(2), IntElem(5), FloatElem, StrElem}
ArgTuples == UNION {[1..n -> TupElems] : n \in 0..MaxTupLen}

\* isinstance(x, (int, float))
IsNumber(e) == e.k \in {"int", "float"}

\* the exception of pt[e], the tuple pt indexed by the element e
PyIndexFault(pt, e) ==
    IF e.k /= "int" THEN "TypeError"
    ELSE IF e.v >= Len(pt) \/ e.v < -Len(pt) THEN "IndexError"
    ELSE "none"

\* pt[v] for an index v in range: a negative index counts from the end
PyItem(pt, v) == IF v >= 0 THEN pt[v + 1] ELSE pt[Len(pt) + v + 1]

RECURSIVE ElementCheck(_, _)
\* lines 322-324: for i in pt: if not isinstance(pt[i], (int, float)): raise;
\* j is the position of the loop
ElementCheck(pt, j) ==
    IF j > Len(pt) THEN "none"
    ELSE LET e == pt[j]
             f == PyIndexFault(pt, e)
         IN IF f /= "none" THEN f
            ELSE IF ~IsNumber(PyItem(pt, e.v)) THEN "NotNumbers"
            ELSE ElementCheck(pt, j + 1)

\* lines 321-330: the exception raised ("none" for none) and the coordinates
\* of the point returned
point3dOfTuple(pt) ==
    LET f == ElementCheck(pt, 1)
    IN IF f /= "none" THEN [fault |-> f, c |-> <<>>]
       ELSE IF Len(pt) = 2 THEN [fault |-> "none", c |-> <<pt[1], pt[2], IntElem(0)>>]
       ELSE IF Len(pt) = 3 THEN [fault |-> "none", c |-> <<pt[1], pt[2], pt[3]>>]
       ELSE [fault |-> "BadLength", c |-> <<>>]

InitPoint3d ==
    /\ ChainIdle
    /\ OthersIdle

CallPoint3d ==
    /\ apiCall = NoApiCall
    /\ \E pt \in ArgTuples :
          apiCall' = [op |-> "point3d", pt |-> pt, fault |-> point3dOfTuple(pt).fault,
                      result |-> point3dOfTuple(pt).c]
    /\ UNCHANGED <<chainVars, vecCall, userParams, ezFeatures, caseRun>>

NextPoint3d == CallPoint3d

SpecPoint3d == InitPoint3d /\ [][NextPoint3d]_vars

-----------------------------------------------------------------------------
(* Sketch_Constrain.geometric.  An object is its type and a number; a       *)
(* constraint of the host is the method that made it and its arguments.     *)
(* The host makes the constraint when the arguments are of the shape the    *)
(* method is for and raises otherwise.                                      *)

\* the names of the documentation as written, in small and in capital
\* letters, and the names the code compares with
ConstraintNames ==
    {
     "Horizontal", "horizontal", "HORIZONTAL", "H", "h", "Vertical",
     "vertical", "VERTICAL", "V", "v", "Coincident", "coincident",
     "COINCIDENT", "Coin", "coin", "COIN", "Collinear", "collinear",
     "COLLINEAR", "Col", "col", "COL", "Midpoint", "midpoint", "MIDPOINT",
     "Mid", "mid", "MID", "Parallel", "parallel", "PARALLEL", "Par", "par",
     "PAR", "Perpendicular", "perpendicular", "PERPENDICULAR", "Perp",
     "perp", "PERP", "Concentric", "concentric", "CONCENTRIC", "Con", "con",
     "CON", "Tangent", "tangent", "TANGENT", "Tan", "tan", "TAN", "Symmetry",
     "symmetry", "SYMMETRY", "Sym", "sym", "SYM", "Smooth", "smooth",
     "SMOOTH", "S", "s", "colinear", "mp", "MP", "bogus"}

\* str.lower() on the constraint names
LowerName(s) ==
    CASE s = "Horizontal" -> "horizontal"
      [] s = "HORIZONTAL" -> "horizontal"
      [] s = "H" -> "h"
      [] s = "Vertical" -> "vertical"
      [] s = "VERTICAL" -> "vertical"
      [] s = "V" -> "v"
      [] s = "Coincident" -> "coincident"
      [] s = "COINCIDENT" -> "coincident"
      [] s = "Coin" -> "coin"
      [] s = "COIN" -> "coin"
      [] s = "Collinear" -> "collinear"
      [] s = "COLLINEAR" -> "collinear"
      [] s = "Col" -> "col"
      [] s = "COL" -> "col"
      [] s = "Midpoint" -> "midpoint"
      [] s = "MIDPOINT" -> "midpoint"
      [] s = "Mid" -> "mid"
      [] s = "MID" -> "mid"
      [] s = "Parallel" -> "parallel"
      [] s = "PARALLEL" -> "parallel"
      [] s = "Par" -> "par"
      [] s = "PAR" -> "par"
      [] s = "Perpendicular" -> "perpendicular"
      [] s = "PERPENDICULAR" -> "perpendicular"
      [] s = "Perp" -> "perp"
      [] s = "PERP" -> "perp"
      [] s = "Concentric" -> "concentric"
      [] s = "CONCENTRIC" -> "concentric"
      [] s = "Con" -> "con"
      [] s = "CON" -> "con"
      [] s = "Tangent" -> "tangent"
      [] s = "TANGENT" -> "tangent"
      [] s = "Tan" -> "tan"
      [] s = "TAN" -> "tan"
      [] s = "Symmetry" -> "symmetry"
      [] s = "SYMMETRY" -> "symmetry"
      [] s = "Sym" -> "sym"
      [] s = "SYM" -> "sym"
      [] s = "Smooth" -> "smooth"
      [] s = "SMOOTH" -> "smooth"
      [] s = "S" -> "s"
      [] s = "MP" -> "mp"
      [] OTHER -> s

Obj(t, n) == [type |-> t, n |-> n]
\* the argument objects: list is FALSE for a single object that is no list
ObjectArgs ==
    {[list |-> FALSE, objs |-> <<Obj("SketchLine", 1)>>],
     [list |-> TRUE, objs |-> <<Obj("SketchLine", 1)>>],
     [list |-> TRUE, objs |-> <<Obj("SketchPoint", 1), Obj("SketchPoint", 2)>>],
     [list |-> TRUE, objs |-> <<Obj("SketchLine", 1), Obj("SketchLine", 2)>>],
     [list |-> TRUE, objs |-> <<Obj("SketchPoint", 1), Obj("SketchLine", 1)>>],
     [list |-> TRUE, objs |-> <<Obj("SketchArc", 1), Obj("SketchArc", 2)>>],
     [list |-> TRUE, objs |-> <<Obj("SketchArc", 1), Obj("SketchLine", 1)>>],
     [list |-> TRUE, objs |-> <<Obj("SketchFittedSpline", 1), Obj("SketchArc", 1)>>],
     [list |-> TRUE,
      objs |-> <<Obj("SketchPoint", 1), Obj("SketchPoint", 2), Obj("SketchLine", 1)>>]}

IsCurveObj(o) == o.type \in {"SketchLine", "SketchArc", "SketchFittedSpline"}
TypesOf(objs) == [j \in 1..Len(objs) |-> objs[j].type]

\* the argument shapes a method of sketch.geometricConstraints takes
HostAccepts(method, objs) ==
    CASE method \in {"addHorizontal", "addVertical"} ->
            TypesOf(objs) = <<"SketchLine">>
      [] method \in {"addHorizontalPoints", "addVerticalPoints"} ->
            TypesOf(objs) = <<"SketchPoint", "SketchPoint">>
      [] method = "addCoincident" ->
            Len(objs) = 2 /\ objs[1].type = "SketchPoint"
      [] method \in {"addCollinear", "addParallel", "addPerpendicular"} ->
            TypesOf(objs) = <<"SketchLine", "SketchLine">>
      [] method = "addMidPoint" ->
            TypesOf(objs) = <<"SketchPoint", "SketchLine">>
      [] method = "addConcentric" ->
            TypesOf(objs) = <<"SketchArc", "SketchArc">>
      [] method = "addTangent" ->
            Len(objs) = 2 /\ IsCurveObj(objs[1]) /\ IsCurveObj(objs[2])
               /\ TypesOf(objs) /= <<"SketchLine", "SketchLine">>
      [] method = "addSymmetry" ->
            Len(objs) = 3 /\ objs[1].type = objs[2].type /\ objs[3].type = "SketchLine"
      [] method = "addSmooth" ->
            Len(objs) = 2 /\ objs[1].type = "SketchFittedSpline" /\ IsCurveObj(objs[2])
      [] OTHER -> FALSE

Constraint(method, objs) == [method |-> method, objs |-> objs]
\* the value None
NoConstraint == Constraint("None", <<>>)

\* the outcome of a call: the exception, the constraints applied to the
\* sketch and the value returned
Outcome(f, applied, ret) == [fault |-> f, applied |-> applied, ret |-> ret]

\* return self.__parent__._constraints.<method>(objects[0], ..., objects[n-1])
ReturnAdd(method, objects, n) ==
    IF Len(objects) < n THEN Outcome("IndexError", <<>>, NoConstraint)
    ELSE IF ~HostAccepts(method, SubSeq(objects, 1, n))
    THEN Outcome("HostError", <<>>, NoConstraint)
    ELSE Outcome("none", <<Constraint(method, SubSeq(objects, 1, n))>>,
                 Constraint(method, SubSeq(objects, 1, n)))

TwoSketchPoints(objects) ==
    Len(objects) = 2 /\ objects[1].type = "SketchPoint" /\ objects[2].type = "SketchPoint"
OneSketchLine(objects) == Len(objects) = 1 /\ objects[1].type = "SketchLine"

\* lines 558-612, objects being a list
geometric(objects, constraintType) ==
    LET ct == LowerName(constraintType)
    IN IF ct \in {"horizontal", "h"} /\ TwoSketchPoints(objects)
       THEN ReturnAdd("addHorizontalPoints", objects, 2)
       ELSE IF ct \in {"horizontal", "h"} /\ OneSketchLine(objects)
       THEN ReturnAdd("addHorizontal", objects, 1)
       ELSE IF ct \in {"vertical", "v"} /\ TwoSketchPoints(objects)
       THEN \* line 579: the constraint is made and not returned
            Outcome("none", <<Constraint("addVerticalPoints", objects)>>, NoConstraint)
       ELSE IF ct \in {"vertical", "v"} /\ OneSketchLine(objects)
       THEN ReturnAdd("addVertical", objects, 1)
       ELSE IF ct \in {"coincident", "coin"} THEN ReturnAdd("addCoincident", objects, 2)
       ELSE IF ct \in {"colinear", "col"} THEN ReturnAdd("addCollinear", objects, 2)
       ELSE IF ct \in {"midpoint", "mp"} THEN ReturnAdd("addMidPoint", objects, 2)
       ELSE IF ct \in {"parallel", "par"} THEN ReturnAdd("addParallel", objects, 2)
       ELSE IF ct \in {"perpendicular", "perp"} THEN ReturnAdd("addPerpendicular", objects, 2)
       ELSE IF ct \in {"concentric", "con"} THEN ReturnAdd("addConcentric", objects, 2)
       ELSE IF ct \in {"symmetry", "sym"} THEN ReturnAdd("addSymmetry", objects, 3)
       ELSE IF ct \in {"tangent", "tan"} THEN ReturnAdd("addTangent", objects, 2)
       ELSE IF ct \in {"smooth", "s"} THEN ReturnAdd("addSmooth", objects, 2)
       ELSE Outcome("none", <<>>, NoConstraint)

InitConstrain ==
    /\ ChainIdle
    /\ OthersIdle

CallGeometric ==
    /\ apiCall = NoApiCall
    /\ \E arg \in ObjectArgs, constraintType \in ConstraintNames :
          \* lines 558-559: a single object is put into a list
          LET r == geometric(arg.objs, constraintType)
          IN apiCall' = [op |-> "geometric", arg |-> arg, constraintType |-> constraintType,
                         fault |-> r.fault, applied |-> r.applied, ret |-> r.ret]
    /\ UNCHANGED <<chainVars, vecCall, userParams, ezFeatures, caseRun>>

NextConstrain == CallGeometric

SpecConstrain == InitConstrain /\ [][NextConstrain]_vars

-----------------------------------------------------------------------------
(* Case.buildCase (src/LaserCutCase.py): the statements are followed one by *)
(* one; caseRun.log is the sequence of the calls made to the library.      *)

\* the name of a case: a string, or an object that is no string (a dict)
StrName(s) == [k |-> "str", s |-> s]
DictName == [k |-> "dict", s |-> "{}"]
CaseNames == {StrName("Case"), StrName("Box"), StrName(""), DictName}
Thicknesses == {3, 4}
Widths == {200, 300}
Lengths == {100, 200}
Heights == {50, 100}

\* a formatted name: the text put in for %s, and the word of the format
ParamName(prefix, word) == [prefix |-> prefix, word |-> word]
NoName == ParamName("", "")

\* format % name fails for a format without conversion when name is a
\* string: not all arguments converted during string formatting
PyFormatFails(hasConversion, name) == ~hasConversion /\ name.k = "str"
PyFormat(hasConversion, word, name) ==
    IF hasConversion THEN ParamName(name.s, word) ELSE ParamName("", word)

LibCall(op, name, value, second) ==
    [op |-> op, name |-> name, value |-> value, second |-> second]

InitCase ==
    /\ ChainIdle
    /\ vecCall = NoVecCall
    /\ userParams = NoUserParams
    /\ ezFeatures = NoFeatures
    /\ apiCall = NoApiCall
    /\ \E n \in CaseNames, t \in Thicknesses, w \in Widths, l \in Lengths, h \in Heights :
          caseRun = [pc |-> "names", fault |-> "none", name |-> n, materialThickness |-> t,
                     width |-> w, length |-> l, height |-> h,
                     paramNames |-> <<>>, log |-> <<>>]

\* lines 162-165: the four parameter names
CaseFormatNames ==
    /\ caseRun.pc = "names"
    /\ IF PyFormatFails(FALSE, caseRun.name)
       THEN caseRun' = [caseRun EXCEPT !.pc = "fault", !.fault = "TypeError"]
       ELSE caseRun' = [caseRun EXCEPT
                          !.pc = "params",
                          !.paramNames = <<PyFormat(FALSE, "MaterialThickness", caseRun.name),
                                           PyFormat(TRUE, "Width", caseRun.name),
                                           PyFormat(TRUE, "Length", caseRun.name),
                                           PyFormat(TRUE, "Height", caseRun.name)>>]
    /\ UNCHANGED <<chainVars, vecCall, userParams, ezFeatures, apiCall>>

\* lines 168-171: one create_UserParameter call after the other
CaseUserParameter ==
    /\ caseRun.pc = "params"
    /\ LET k == Len(caseRun.log) + 1
           value == <<caseRun.materialThickness, caseRun.width, caseRun.length,
                      caseRun.height>>[k]
       IN caseRun' = [caseRun EXCEPT
                        !.log = Append(@, LibCall("create_UserParameter",
                                                  caseRun.paramNames[k], value, NoName)),
                        !.pc = IF k = 4 THEN "sketch" ELSE "params"]
    /\ UNCHANGED <<chainVars, vecCall, userParams, ezFeatures, apiCall>>

\* lines 174-176: the sketch of the base plate and its rectangle
CaseBasePlateSketch ==
    /\ caseRun.pc = "sketch"
    /\ caseRun' = [caseRun EXCEPT
                     !.log = @ \o <<LibCall("EZSketch", NoName, 0, NoName),
                                    LibCall("rectangle", caseRun.paramNames[2], 0,
                                            caseRun.paramNames[3])>>,
                     !.pc = "extrude"]
    /\ UNCHANGED <<chainVars, vecCall, userParams, ezFeatures, apiCall>>

\* lines 178-180: the extrusion of the base plate
CaseExtrude ==
    /\ caseRun.pc = "extrude"
    /\ caseRun' = [caseRun EXCEPT
                     !.log = @ \o <<LibCall("EZFeatures", NoName, 0, NoName),
                                    LibCall("extrude", caseRun.paramNames[1], 0, NoName)>>,
                     !.pc = "done"]
    /\ UNCHANGED <<chainVars, vecCall, userParams, ezFeatures, apiCall>>

NextCase == CaseFormatNames \/ CaseUserParameter \/ CaseBasePlateSketch \/ CaseExtrude

SpecCase == InitCase /\ [][NextCase]_vars

-----------------------------------------------------------------------------
(* What a point list asks for, read off the list itself *)

\* the marker strings that ask for an arc
ArcWords == {"a", "A", "arc", "Arc", "ARC"}

\* the indices of the elements of lst whose kind is in K
PositionsOf(lst, K) == {j \in 1..Len(lst) : lst[j].t \in K}

\* the index in lst of its k-th element of a kind in K
NthPos(lst, K, k) ==
    CHOOSE j \in PositionsOf(lst, K) :
        Cardinality({m \in PositionsOf(lst, K) : m <= j}) = k

NumPts(lst, K) == Cardinality(PositionsOf(lst, K))

\* lst holds vertices of the kinds K with at most one string between two of them
WellArranged(lst, K) ==
    /\ Len(lst) >= 1
    /\ \A j \in 1..Len(lst) : lst[j].t \in K \cup {"str"}
    /\ lst[1].t \in K
    /\ lst[Len(lst)].t \in K
    /\ \A j \in 1..(Len(lst) - 1) : ~(lst[j].t = "str" /\ lst[j + 1].t = "str")

\* an arc marker stands between vertex k and vertex k+1
MarkedArc(lst, K, k) ==
    LET j == NthPos(lst, K, k)
    IN j < Len(lst) /\ lst[j + 1].t = "str" /\ lst[j + 1].s \in ArcWords

ExpectedLen(lst, K, c) == NumPts(lst, K) - 1 + (IF c = "None" THEN 0 ELSE 1)

\* segment k is asked to be an arc
ExpectedArc(lst, K, c, k) ==
    IF k < NumPts(lst, K) THEN MarkedArc(lst, K, k) ELSE c \in {"a", "arc"}

\* the coordinate of vertex k of the chain (vertex n+1 of a closed chain is vertex 1)
ExpectedCoord(lst, K, k) ==
    LET e == lst[NthPos(lst, K, IF k <= NumPts(lst, K) THEN k ELSE 1)]
    IN IF e.t = "skp" THEN points[e.id].geom ELSE e.c

\* crvList has the asked number of segments, each of the asked kind
ChainShape(K) ==
    /\ Len(crvList) = ExpectedLen(pointList, K, close)
    /\ \A k \in 1..Len(crvList) :
          /\ crvList[k] /= 0
          /\ (curves[crvList[k]].kind = "arc") <=> ExpectedArc(pointList, K, close, k)

\* segment k of crvList joins the coordinates of vertex k and vertex k+1
ChainThroughVertices(K) ==
    \A k \in 1..Len(crvList) :
        crvList[k] /= 0 =>
           {points[curves[crvList[k]].start].geom, points[curves[crvList[k]].end].geom}
             = {ExpectedCoord(pointList, K, k), ExpectedCoord(pointList, K, k + 1)}

Started == pc /= "call"
Returned == pc = "done"

ConsOfKind(kd) == {j \in 1..Len(constraints) : constraints[j].kind = kd}
LogOfOp(op) == {j \in 1..Len(hostLog) : hostLog[j].op = op}
ArcCmds == {k \in 1..Len(cmdList) : cmdList[k] = "a"}

FirstCurve == curves[crvList[1]]
LastCurve == curves[crvList[Len(crvList)]]

-----------------------------------------------------------------------------
(* C1 *)

C1_Pre ==
    /\ WellArranged(pointList, {"p3d"})
    /\ NumPts(pointList, {"p3d"}) >= 2
    /\ ~ExpectedArc(pointList, {"p3d"}, close, 1)

-----------------------------------------------------------------------------
(* C2 *)

\* C2: when the first generated command is an arc, curveChain raises the
\* first-element fault, and no line, arc, point or constraint has been created
\* and no point has been marked fixed.
C2_FirstArcFaultsFirst ==
    (Started /\ cmdList /= <<>> /\ cmdList[1] = "a") =>
        /\ pc = "fault"
        /\ fault = "FirstNotLine"
        /\ curves = <<>>
        /\ constraints = <<>>
        /\ Len(points) = 1
        /\ fixedPtList = <<>>
        /\ hostLog = <<>>

C2_Witness ==
    /\ pc = "fault"
    /\ fault = "FirstNotLine"
    /\ Len(cmdList) >= 2
    /\ cmdList[1] = "a"

-----------------------------------------------------------------------------
(* C3 *)

\* the sketch points curveChain has set isFixed = True on
MarkedFixed == {hostLog[j].x : j \in {m \in LogOfOp("fix") : hostLog[m].y = 1}}

\* C3: when curveChain returns, no sketch point it marked fixed during the
\* build is still marked fixed.
C3_FixedCleanup ==
    Returned => \A h \in MarkedFixed : ~points[h].fixed

-----------------------------------------------------------------------------
(* C4 *)

C4_Pre ==
    /\ WellArranged(pointList, {"p3d"})
    /\ NumPts(pointList, {"p3d"}) >= 2
    /\ \A k \in 1..ExpectedLen(pointList, {"p3d"}, close) :
          ~ExpectedArc(pointList, {"p3d"}, close, k)

\* C4: in a chain with no arcs, every line after the first starts at the
\* coordinate where the line before it ends and a Coincident constraint is
\* emitted between its start point and the end point of the line before it;
\* no Coincident constraint is emitted for the start point of the first line
\* as the start of a line (in an open chain it is in no constraint at all).
C4_LinesCoincident ==
    (Started /\ C4_Pre) =>
        /\ \A k \in 2..Len(crvList) :
              LET cur == curves[crvList[k]]
                  prv == curves[crvList[k - 1]]
              IN /\ points[cur.start].geom = points[prv.end].geom
                 /\ \E j \in ConsOfKind("coin") :
                       constraints[j].a = cur.start /\ constraints[j].b = prv.end
        /\ \A j \in ConsOfKind("coin") :
              /\ constraints[j].a /= FirstCurve.start
              /\ close = "None" => constraints[j].b /= FirstCurve.start
        /\ Returned =>
              Cardinality(ConsOfKind("coin"))
                 = Len(crvList) - 1 + (IF close = "None" THEN 0 ELSE 1)

C4_Witness ==
    /\ Returned
    /\ C4_Pre
    /\ Len(crvList) >= 3
    /\ close = "None"
    /\ Cardinality(ConsOfKind("coin")) >= 2

-----------------------------------------------------------------------------
(* C5 *)

C5_Pre ==
    /\ WellArranged(pointList, {"p3d"})
    /\ NumPts(pointList, {"p3d"}) >= 2
    /\ close = "l"

\* the Coincident constraints between sketch points a and b, in this order
CoinBetween(a, b) ==
    {j \in ConsOfKind("coin") : constraints[j].a = a /\ constraints[j].b = b}

\* the last segment is a line that ends at the coordinate where the first starts
C5_ClosedByLine ==
    /\ LastCurve.kind = "line"
    /\ points[LastCurve.start].geom
          = ExpectedCoord(pointList, {"p3d"}, NumPts(pointList, {"p3d"}))
    /\ points[LastCurve.end].geom = points[FirstCurve.start].geom

\* C5 as stated: with a line value for close the closing line is the last
\* segment, it ends where the first segment starts, and exactly one closing
\* Coincident constraint is emitted, between the end point of the last line and
\* the start point of the first segment.
C5_ClosingConstraintAtEnd ==
    (Returned /\ C5_Pre) =>
        /\ C5_ClosedByLine
        /\ Cardinality(CoinBetween(LastCurve.end, FirstCurve.start)) = 1
        /\ Cardinality({j \in ConsOfKind("coin") : constraints[j].b = FirstCurve.start}) = 1

\* C5 as amended: with a line value for close the closing line is the last
\* segment, it ends where the first segment starts, and exactly one closing
\* Coincident constraint is emitted, with the start point of the first segment:
\* from the end point of the last line when the last input point differs from
\* the first input point, from the start point of the last line when the two
\* are equal (the closing line then has no length).
C5_ClosingConstraintNearest ==
    (Returned /\ C5_Pre) =>
        LET near == IF points[LastCurve.start].geom = points[FirstCurve.start].geom
                    THEN LastCurve.start ELSE LastCurve.end
        IN /\ C5_ClosedByLine
           /\ Cardinality(CoinBetween(near, FirstCurve.start)) = 1
           /\ Cardinality({j \in ConsOfKind("coin") : constraints[j].b = FirstCurve.start}) = 1

C5_Witness ==
    /\ Returned
    /\ C5_Pre
    /\ Len(crvList) = 3
    /\ points[LastCurve.start].geom /= points[FirstCurve.start].geom
    /\ Cardinality(CoinBetween(LastCurve.end, FirstCurve.start)) = 1

-----------------------------------------------------------------------------
(* C6 *)

\* the arcs of the chain that are followed by another arc: each gets a new
\* sketch point as its end
ArcsBeforeArcs == {k \in 1..(Len(cmdList) - 1) : cmdList[k] = "a" /\ cmdList[k + 1] = "a"}

\* C6: when close is 'arc' or 'a', the last arc ends on the start sketch point
\* of the first segment itself, whatever the curve before it, and no sketch
\* point is created for its end: the only points created by point() are the
\* ends of the arcs that are followed by an arc.
C6_ClosingArcEndsOnFirstStart ==
    (Returned /\ close \in {"a", "arc"}) =>
        /\ LastCurve.kind = "arc"
        /\ LastCurve.end = FirstCurve.start
        /\ Cardinality(LogOfOp("point")) = Cardinality(ArcsBeforeArcs)

C6_Witness ==
    /\ Returned
    /\ close = "a"
    /\ Len(crvList) >= 3
    /\ curves[crvList[Len(crvList) - 1]].kind = "arc"
    /\ LastCurve.end = FirstCurve.start

-----------------------------------------------------------------------------
(* C7 *)

TanOf(h) == {j \in ConsOfKind("tan") : constraints[j].a = h}

\* C7: every Tangent constraint is emitted for an arc of the chain, as its
\* first object, against the segment right before that arc; every arc built has
\* exactly one; a call that returns has emitted as many as there are arc
\* commands; none is emitted for a line (a line is the first object of no
\* Tangent constraint, and no Tangent constraint joins a line to the segment
\* right before it).
C7_OneTangentPerArc ==
    Started =>
        /\ \A j \in ConsOfKind("tan") :
              \E k \in 2..Len(crvList) :
                 /\ crvList[k] = constraints[j].a
                 /\ curves[crvList[k]].kind = "arc"
                 /\ crvList[k - 1] = constraints[j].b
        /\ \A k \in 1..Len(crvList) :
              crvList[k] /= 0 =>
                 IF curves[crvList[k]].kind = "arc"
                 THEN Cardinality(TanOf(crvList[k])) = 1
                 ELSE /\ TanOf(crvList[k]) = {}
                      /\ k > 1 =>
                           \A j \in ConsOfKind("tan") :
                              ~(constraints[j].b = crvList[k]
                                   /\ constraints[j].a = crvList[k - 1])
        /\ Returned => Cardinality(ConsOfKind("tan")) = Cardinality(ArcCmds)

C7_Witness ==
    /\ Returned
    /\ Len(crvList) >= 4
    /\ \E k \in 2..(Len(crvList) - 2) :
          /\ curves[crvList[k]].kind = "arc"
          /\ curves[crvList[k + 1]].kind = "arc"
          /\ curves[crvList[k + 2]].kind = "line"
    /\ Cardinality(ConsOfKind("tan")) = 2

-----------------------------------------------------------------------------
(* C8 *)

C8_Pre ==
    /\ WellArranged(pointList, {"p3d"})
    /\ NumPts(pointList, {"p3d"}) >= 2

-----------------------------------------------------------------------------
(* C9 *)

C9_Pre ==
    /\ WellArranged(pointList, {"p3d", "skp"})
    /\ NumPts(pointList, {"p3d", "skp"}) >= 2
    /\ HasKind(pointList, "skp")

\* C9: a sketchPoint element is a vertex of the chain at its coordinates as a
\* Point3D with these coordinates is: the chain returned has one segment per
\* pair of consecutive vertices (and the closing one), of the asked kinds,
\* through the coordinates of the vertices.
C9_SketchPointIsVertex ==
    (Returned /\ C9_Pre) =>
        /\ ChainShape({"p3d", "skp"})
        /\ ChainThroughVertices({"p3d", "skp"})

-----------------------------------------------------------------------------
(* C10 *)

\* C10: a list with an element of an unsupported type (here a bare number)
\* makes curveChain raise: the call never returns a chain.
C10_UnsupportedTypeFaults ==
    (Started /\ HasKind(pointList, "num")) => ~Returned

-----------------------------------------------------------------------------
(* C11 *)

\* the tuples of lst that tuple2Point3d refuses
BadTuples(lst) ==
    {j \in 1..Len(lst) :
        lst[j].t = "tuple" /\ (lst[j].nn /= {} \/ Len(lst[j].c) \notin {2, 3})}

\* C11: a tuple whose length is not 2 or 3, or with a component that is no
\* number, makes curveChain raise during the conversion of the list: nothing has
\* been parsed, and no line, arc, point or constraint has been created.
C11_BadTupleFaultsInConversion ==
    (Started /\ BadTuples(argList) /= {}) =>
        /\ pc = "fault"
        /\ fault \in {"TupleType", "TupleLength"}
        /\ ptList = <<>>
        /\ cmdList = <<>>
        /\ curves = <<>>
        /\ constraints = <<>>
        /\ Len(points) = 1
        /\ hostLog = <<>>

C11_Witness ==
    /\ pc = "fault"
    /\ fault = "TupleType"
    /\ argList = <<Tup(<<1, 0>>), TupN(<<0, 0>>, {2}), Tup(<<0>>)>>
    /\ pointList[1] = P3D(<<1, 0, 0>>)

-----------------------------------------------------------------------------
(* C12 *)

\* the reference points orderCurveEndsByDist is asked about
RefCoords == {<<x, y, z>> : x \in -1..2, y \in -1..2, z \in 0..1}

-----------------------------------------------------------------------------
(* C13 *)

\* the curves the host was asked to create
LoggedCurves == LogOfOp("line") \cup LogOfOp("arc")

\* the constraints the host was asked to apply
LoggedCons == LogOfOp("coin") \cup LogOfOp("tan")

\* C13: when curveChain has raised after a segment was created, the call is
\* over without a returned list, every segment and every constraint created is
\* in the sketch, and every point marked fixed by the call is still fixed.
C13_NoRollback ==
    (fault /= "none" /\ curves /= <<>>) =>
        /\ pc = "fault"
        /\ Cardinality(LoggedCurves) = Len(curves)
        /\ \A j \in LoggedCurves :
              hostLog[j].x \in 1..Len(curves) /\ curves[hostLog[j].x].kind = hostLog[j].op
        /\ Cardinality(LoggedCons) = Len(constraints)
        /\ \A j \in LoggedCons :
              \E m \in 1..Len(constraints) :
                 constraints[m] = [kind |-> hostLog[j].op, a |-> hostLog[j].x, b |-> hostLog[j].y]
        /\ \A h \in MarkedFixed : points[h].fixed

\* a fault of the arc pass after two lines, an arc and its constraint
C13_Witness ==
    /\ pc = "fault"
    /\ fault = "ZeroDivisionError"
    /\ \E k \in 1..Len(curves) : curves[k].kind = "arc"
    /\ ConsOfKind("tan") /= {}
    /\ Cardinality(MarkedFixed) >= 3
    /\ \A h \in MarkedFixed : points[h].fixed

-----------------------------------------------------------------------------
(* C14 *)

\* two consecutive input points coincide
C14_Degenerate ==
    \E k \in 1..(NumPts(pointList, {"p3d"}) - 1) :
        ExpectedCoord(pointList, {"p3d"}, k) = ExpectedCoord(pointList, {"p3d"}, k + 1)

\* an arc is asked right after a line between two coinciding points
ZeroLineBeforeArc ==
    \E k \in 2..ExpectedLen(pointList, {"p3d"}, close) :
        /\ ExpectedArc(pointList, {"p3d"}, close, k)
        /\ ~ExpectedArc(pointList, {"p3d"}, close, k - 1)
        /\ ExpectedCoord(pointList, {"p3d"}, k - 1) = ExpectedCoord(pointList, {"p3d"}, k)

\* C14 as stated: whenever two consecutive input points of a chain coincide,
\* curveChain does not return and the fault it raises is the division by zero
\* of the vector normalization.
C14_DegenerateDividesByZero ==
    (C1_Pre /\ C14_Degenerate) =>
        /\ ~Returned
        /\ pc = "fault" => fault = "ZeroDivisionError"

\* C14 as amended: the division by zero of unitVector (line 864) is raised
\* when, and only when, the arc pass comes to an arc that follows a line
\* between two coinciding points; it is not caught, so such a chain never
\* finishes its arc pass; coinciding consecutive points anywhere else (a chain
\* of lines only, for one) raise no division by zero.
C14_ZeroLineBeforeArcDividesByZero ==
    C1_Pre =>
        /\ pc \in {"cleanup", "done"} => ~ZeroLineBeforeArc
        /\ (/\ pc = "fault"
            /\ i \in 2..Len(crvList)
            /\ crvList[i] = 0
            /\ crvList[i - 1] /= 0
            /\ curves[crvList[i - 1]].kind = "line"
            /\ points[curves[crvList[i - 1]].start].geom
                  = points[curves[crvList[i - 1]].end].geom)
              => fault = "ZeroDivisionError"
        /\ fault = "ZeroDivisionError" =>
              /\ pc = "fault"
              /\ ZeroLineBeforeArc
              /\ crvList[i] = 0
              /\ curves[crvList[i - 1]].kind = "line"
              /\ points[curves[crvList[i - 1]].start].geom
                    = points[curves[crvList[i - 1]].end].geom

C14_Witness ==
    /\ C1_Pre
    /\ pc = "fault"
    /\ fault = "ZeroDivisionError"
    /\ ZeroLineBeforeArc
    /\ Len(curves) >= 2
    /\ i = 3

-----------------------------------------------------------------------------
(* C15 *)

-----------------------------------------------------------------------------
(* C16 *)

\* the arcs of the sketch that were made after an arc
ArcsAfterArc == {k \in 1..Len(curves) : curves[k].kind = "arc" /\ curves[k].gsel \in {1, 2}}

\* the arc the arc k was made after: the one it is constrained tangent to
ArcBefore(k) == curves[constraints[CHOOSE j \in TanOf(k) : TRUE].b]

\* the guess point that lies past the end of the arc p in its own rotational
\* sense: the first (clockwise offset) for a clockwise arc, else the second
GuessPastEnd(p) == IF ArcTurn(p, points) < 0 THEN 1 ELSE 2

\* C16: for an arc made after an arc, the guess point taken is the one of the
\* two candidates that lies past the end of the previous arc in the rotational
\* sense of the previous arc, whatever the sweep of the previous arc.
C16_GuessContinuesRotation ==
    \A k \in ArcsAfterArc : curves[k].gsel = GuessPastEnd(ArcBefore(k))

-----------------------------------------------------------------------------
(* C17 *)

\* the arcs of the chain that were made after a line, as indices of crvList
ArcsAfterLine ==
    {k \in 2..Len(crvList) :
        /\ crvList[k] /= 0
        /\ crvList[k - 1] /= 0
        /\ curves[crvList[k]].kind = "arc"
        /\ curves[crvList[k - 1]].kind = "line"}

\* C17: an arc made after a line starts on the end of that line nearest the
\* junction input point, and its guess point is that end moved by
\* 100 * smallNumber in the direction from the other end of the line to it:
\* it is the other end moved along the line by the length of the line and
\* 100 * smallNumber more.
C17_GuessBeyondLineEnd ==
    \A k \in ArcsAfterLine :
        LET arc == curves[crvList[k]]
            ln == curves[crvList[k - 1]]
            other == IF arc.start = ln.end THEN ln.start ELSE ln.end
            junction == ptList[k].c
        IN /\ arc.start \in {ln.start, ln.end}
           /\ SqDist(points[arc.start].geom, junction) = 0
           /\ SqDist(points[arc.start].geom, junction) < SqDist(points[other].geom, junction)
           /\ arc.guess.org = points[other].geom
           /\ arc.guess.dir = unitVector(fromPoints(points[other].geom, points[arc.start].geom))
           /\ arc.guess.dir /= <<0, 0>>
           /\ arc.guess.mag = 1
           /\ arc.guess.eps = 100

C17_Witness ==
    /\ Returned
    /\ Cardinality(ArcsAfterLine) = 2
    /\ \E k \in ArcsAfterLine : curves[crvList[k]].guess.dir = <<-1, -1>>

-----------------------------------------------------------------------------
(* C18: arePerpendicular returns True exactly when the dot product of its   *)
(* two vectors is at most smallNumber, and areParallel returns True exactly *)
(* when their cross product is at most smallNumber; so each returns True    *)
(* for every pair whose product is negative, however large its size.        *)

VecProduct ==
    IF vecCall.op = "arePerpendicular"
    THEN dotProduct(vecCall.v1, vecCall.v2)
    ELSE crossProduct(vecCall.v1, vecCall.v2)

C18_TrueUpToSmallNumber ==
    vecCall.op \in {"arePerpendicular", "areParallel"} =>
        /\ vecCall.result <=> (VecProduct <= smallNumber)
        /\ VecProduct < 0 => vecCall.result

\* areParallel((0.002, -1), (-1, 0.002)) is True: the cross product is
\* nearly a million times smallNumber below zero
C18_Witness ==
    /\ vecCall.op = "areParallel"
    /\ vecCall.v1 = <<2, -1000>> /\ vecCall.v2 = <<-1000, 2>>
    /\ VecProduct = -999996
    /\ vecCall.result

-----------------------------------------------------------------------------
(* C19: after any sequence of create_UserParameter calls the design holds   *)
(* exactly one user parameter for each distinct name used (next to the ones *)
(* it held before), whose expression is the string form of the expression   *)
(* of the latest call with that name; a call with a name that exists adds   *)
(* no parameter, overwrites the expression and returns the parameter that   *)
(* exists.                                                                  *)

ItemNames(items) == {items[j].name : j \in 1..Len(items)}
ItemsNamed(items, n) == {j \in 1..Len(items) : items[j].name = n}
CallsNamed(n) == {j \in 1..Len(userParams.calls) : userParams.calls[j].name = n}
LatestCall(n) == CHOOSE j \in CallsNamed(n) : \A k \in CallsNamed(n) : k <= j

\* the string form of an expression, written out
StringForm(e) ==
    CASE e = NumExpr(3) -> "3"
      [] e = NumExpr(5) -> "5"
      [] e = StrExpr("3") -> "3"
      [] e = StrExpr("5 mm") -> "5 mm"

C19_OneParameterPerName ==
    LET items == userParams.items
        calls == userParams.calls
        used == {calls[j].name : j \in 1..Len(calls)}
        n == Len(calls)
        earlier == ItemNames(userParams.initial) \cup {calls[j].name : j \in 1..(n - 1)}
    IN /\ ItemNames(items) = used \cup ItemNames(userParams.initial)
       /\ \A nm \in ItemNames(items) : Cardinality(ItemsNamed(items, nm)) = 1
       /\ \A nm \in used :
            \A j \in ItemsNamed(items, nm) :
                items[j].expression = StringForm(calls[LatestCall(nm)].expression)
       /\ n > 0 =>
            IF calls[n].name \in earlier
            THEN /\ Len(items) = userParams.lenBefore
                 /\ userParams.ret \in 1..userParams.lenBefore
                 /\ items[userParams.ret].name = calls[n].name
            ELSE /\ Len(items) = userParams.lenBefore + 1
                 /\ userParams.ret = Len(items)

\* "width" is made with the number 3, overwritten with "5 mm" and then with
\* the number 5; "height" was in the design before
C19_Witness ==
    /\ userParams.initial /= <<>>
    /\ userParams.calls = <<[name |-> "width", expression |-> NumExpr(3)],
                            [name |-> "width", expression |-> StrExpr("5 mm")],
                            [name |-> "width", expression |-> NumExpr(5)]>>
    /\ userParams.items = <<[name |-> "height", expression |-> "1 mm"],
                            [name |-> "width", expression |-> "5"]>>
    /\ userParams.ret = 2

-----------------------------------------------------------------------------
(* C20: only one feature per EZFeatures instance: once extrude or revolve   *)
(* has set the feature of an instance, every later extrude or revolve on    *)
(* that instance raises and leaves its feature, feature type and parent     *)
(* component unchanged; fillet and shell called on an instance put their    *)
(* result in a new EZFeatures instance and leave the feature of the         *)
(* instance they were called on unchanged.                                  *)

FeaturesOf(insts) == {insts[k].feature : k \in 1..Len(insts)} \ {0}

C20_OneFeaturePerInstance ==
    LET l == ezFeatures.last
        b == l.before
        now == ezFeatures.insts
    IN /\ (l.op \in {"extrude", "revolve"} /\ b[l.inst].privType \in {"extrude", "revolve"}) =>
            /\ l.raised
            /\ now[l.inst].feature = b[l.inst].feature
            /\ now[l.inst].privType = b[l.inst].privType
            /\ now[l.inst].parent = b[l.inst].parent
       /\ l.op \in {"fillet", "shell"} =>
            /\ ~l.raised
            /\ l.ret = Len(b) + 1 /\ Len(now) = Len(b) + 1
            /\ now[l.ret].feature \notin FeaturesOf(b) \cup {0}
            /\ now[l.inst].feature = b[l.inst].feature
       /\ \A k \in 1..Len(now) :
            now[k].privType \in {"extrude", "revolve"} => now[k].feature /= 0

\* a revolve on an extruded instance raises, after a fillet was made from it
C20_Witness ==
    LET l == ezFeatures.last
    IN /\ l.op = "revolve" /\ l.raised
       /\ l.before[l.inst].privType = "extrude"
       /\ l.before[l.inst].parent = "root"
       /\ \E k \in 1..Len(ezFeatures.insts) :
            /\ ezFeatures.insts[k].pubType = "fillet"
            /\ ezFeatures.insts[k].feature > ezFeatures.insts[l.inst].feature


-----------------------------------------------------------------------------
(* C22: an arc that is not the last command ends, when the next command is  *)
(* a line, on the start sketch point of that line itself, and no point is   *)
(* created for it; when the next command is an arc, it ends on a sketch     *)
(* point created for it at the next input coordinate, which is marked fixed *)
(* and recorded unless a point at that coordinate is already recorded.      *)

LogPos(op, x) == CHOOSE j \in 1..Len(hostLog) : hostLog[j].op = op /\ hostLog[j].x = x
Recorded == {fixedPtList[j] : j \in 1..Len(fixedPtList)}

\* the resolved arcs of the returned list that are not its last command
InnerArcs == {k \in 1..(Len(crvList) - 1) : cmdList[k] = "a" /\ crvList[k] /= 0}

C22_InnerArcEndPoint ==
    \A k \in InnerArcs :
        LET arc == curves[crvList[k]]
            j == LogPos("arc", crvList[k])
            ep == arc.end
            same == {h \in Recorded \ {ep} : points[h].geom = points[ep].geom}
        IN IF cmdList[k + 1] = "l"
           THEN /\ crvList[k + 1] /= 0
                /\ curves[crvList[k + 1]].kind = "line"
                /\ ep = curves[crvList[k + 1]].start
                /\ \A m \in {j - 2, j - 1} : m >= 1 => hostLog[m].op /= "point"
           ELSE /\ \E m \in {j - 2, j - 1} : hostLog[m] = LogEntry("point", ep, 0)
                /\ points[ep].geom = ptList[k + 1].c
                /\ ep \in Recorded <=> same = {}
                /\ ep \in Recorded <=> hostLog[j - 1] = LogEntry("fix", ep, 1)
                /\ pc = "arcs" => (points[ep].fixed <=> ep \in Recorded)

\* a line, an arc to a new recorded point, an arc to the start of the closing line
C22_Witness ==
    /\ pc = "done"
    /\ cmdList = <<"l", "a", "a", "l">>
    /\ InnerArcs = {2, 3}
    /\ curves[crvList[2]].end \in Recorded
    /\ curves[crvList[3]].end = curves[crvList[4]].start


-----------------------------------------------------------------------------
(* C25: in the list curveChain returns no 'arc' placeholder remains: every  *)
(* element is the handle of a line or of an arc, element k is an arc        *)
(* exactly when command k is an arc, and every arc was resolved on a        *)
(* predecessor made before it, a line or an arc resolved earlier.           *)

C25_NoPlaceholderReturned ==
    Returned =>
        /\ Len(crvList) = Len(cmdList)
        /\ \A k \in 1..Len(crvList) :
             /\ crvList[k] \in 1..Len(curves)
             /\ curves[crvList[k]].kind = "arc" <=> cmdList[k] = "a"
             /\ cmdList[k] = "a" =>
                  /\ k > 1
                  /\ crvList[k - 1] < crvList[k]
                  /\ curves[crvList[k]].start \in
                        {curves[crvList[k - 1]].start, curves[crvList[k - 1]].end}
                  /\ \E j \in TanOf(crvList[k]) : constraints[j].b = crvList[k - 1]

\* a line, an arc on the line and an arc on that arc are returned
C25_Witness ==
    /\ Returned
    /\ close = "None"
    /\ cmdList = <<"l", "a", "a">>
    /\ curves[crvList[2]].kind = "arc" /\ curves[crvList[3]].kind = "arc"
    /\ crvList = <<1, 2, 3>>


-----------------------------------------------------------------------------
(* C26: after the parsing of curveChain the command list is exactly one     *)
(* element shorter than the point list, for every list of points and arc    *)
(* markers that begins with a point and every close value, lists that end   *)
(* with a marker included; so the line pass never reads past the end of     *)
(* the point list.                                                          *)

IsMarkerElem(e) == e.t = "str" /\ IsArcMarker(e.s)
IsPointElem(e) == e.t = "p3d" \/ (e.t = "tuple" /\ TupleOk(e))

PointsAndMarkers(lst) ==
    /\ Len(lst) >= 1
    /\ IsPointElem(lst[1])
    /\ \A j \in 1..Len(lst) : IsPointElem(lst[j]) \/ IsMarkerElem(lst[j])

\* the line pass stopped on ptList[i+1] with i+1 past the end of ptList
LinePassReadPastEnd == pc = "fault" /\ fault = "IndexError" /\ i >= 1

C26_CmdListOneShorter ==
    (Started /\ PointsAndMarkers(argList)) =>
        /\ Len(cmdList) = Len(ptList) - 1
        /\ ~LinePassReadPastEnd


-----------------------------------------------------------------------------
(* C27: curveChain changes the fixed flag only of sketch points made during *)
(* the call: the sketch point that was in the sketch before the call has    *)
(* the same fixed flag after the call as before it, whether the call        *)
(* returns or raises.                                                       *)

C27_OldPointsKeepFixedFlag ==
    pc \in {"done", "fault"} => points[1].fixed = firstCall.preFixed


-----------------------------------------------------------------------------
(* C28: curveChain converts the caller's pointList in place: after the call *)
(* every tuple that was converted is replaced, in the caller's own list, by *)
(* a point with the same coordinates (z = 0 for a tuple of two numbers);    *)
(* the length of the list, the marker strings and the elements that are no  *)
(* tuples are unchanged.                                                    *)

\* the tuples the conversion came to: all of them, or those before the
\* first one it raised on
ConvertedAt(lst) ==
    {j \in 1..Len(lst) : lst[j].t = "tuple"
                         /\ \A k \in 1..j : lst[k].t = "tuple" => TupleOk(lst[k])}

C28_ListConvertedInPlace ==
    Started =>
        /\ Len(pointList) = Len(argList)
        /\ \A j \in 1..Len(argList) :
             IF j \in ConvertedAt(argList)
             THEN LET tpl == argList[j].c
                  IN /\ pointList[j].t = "p3d"
                     /\ pointList[j].c[1] = tpl[1]
                     /\ pointList[j].c[2] = tpl[2]
                     /\ pointList[j].c[3] = (IF Len(tpl) = 2 THEN 0 ELSE tpl[3])
             ELSE pointList[j] = argList[j]

\* two tuples of two numbers, a marker and a tuple of three numbers, returned
C28_Witness ==
    /\ Returned
    /\ argList = <<Tup(<<0, 0>>), Tup(<<1, 0>>), Str("a"), Tup(<<1, 1, 0>>)>>
    /\ pointList = <<P3D(<<0, 0, 0>>), P3D(<<1, 0, 0>>), Str("a"), P3D(<<1, 1, 0>>)>>


-----------------------------------------------------------------------------
(* C23: areLinesParallel returns True for every two sketch lines that are   *)
(* parallel, whichever end point of each line is its start: swapping the    *)
(* start and the end of either line never changes the result, and a line    *)
(* is reported parallel to its own reversal.                                *)

Reversed(ln) == [start |-> ln.end, end |-> ln.start]
DirOf(ln) == fromPoints(ln.start, ln.end)
TrulyParallel(l1, l2) == crossProduct(DirOf(l1), DirOf(l2)) = 0

C23_ParallelWhicheverStart ==
    apiCall.op = "areLinesParallel" =>
        /\ TrulyParallel(apiCall.line1, apiCall.line2) => apiCall.result
        /\ apiCall.result = areLinesParallel(Reversed(apiCall.line1), apiCall.line2)
        /\ apiCall.result = areLinesParallel(apiCall.line1, Reversed(apiCall.line2))
        /\ apiCall.line2 = Reversed(apiCall.line1) => apiCall.result

-----------------------------------------------------------------------------
(* C24: Sketch_Get.point3d returns the point (x, y, 0) for every tuple      *)
(* (x, y) of two numbers and the point (x, y, z) for every tuple (x, y, z)  *)
(* of three numbers; a tuple of any other length raises 'tuple must be of   *)
(* length 2 or 3' and a tuple with an element that is no number raises      *)
(* 'tuple elements must be numbers'.                                        *)

AllNumbers(pt) == \A j \in 1..Len(pt) : IsNumber(pt[j])

C24_Point3dOfTuple ==
    apiCall.op = "point3d" =>
        LET pt == apiCall.pt
        IN /\ (AllNumbers(pt) /\ Len(pt) = 2) =>
                (apiCall.fault = "none" /\ apiCall.result = <<pt[1], pt[2], IntElem(0)>>)
           /\ (AllNumbers(pt) /\ Len(pt) = 3) =>
                (apiCall.fault = "none" /\ apiCall.result = pt)
           /\ (AllNumbers(pt) /\ Len(pt) \notin {2, 3}) => apiCall.fault = "BadLength"
           /\ ~AllNumbers(pt) => apiCall.fault = "NotNumbers"


-----------------------------------------------------------------------------
(* C21: for every constraint name of its documentation (Horizontal / H,     *)
(* Vertical / V, Coincident / Coin, Collinear / Col, Midpoint / Mid,        *)
(* Parallel / Par, Perpendicular / Perp, Concentric / Con, Tangent / Tan,   *)
(* Symmetry / Sym, Smooth / S), in any letter case, and objects of the      *)
(* fitting shape, Sketch_Constrain.geometric applies the corresponding      *)
(* constraint to the sketch and returns the constraint it made.             *)

\* the host method of the constraint a documented name (in small letters)
\* stands for, "none" when the objects are not of its shape
DocumentedMethod(name, objs) ==
    LET pick(m) == IF HostAccepts(m, objs) THEN m ELSE "none"
    IN CASE name \in {"horizontal", "h"} ->
               IF HostAccepts("addHorizontalPoints", objs) THEN "addHorizontalPoints"
               ELSE pick("addHorizontal")
         [] name \in {"vertical", "v"} ->
               IF HostAccepts("addVerticalPoints", objs) THEN "addVerticalPoints"
               ELSE pick("addVertical")
         [] name \in {"coincident", "coin"} -> pick("addCoincident")
         [] name \in {"collinear", "col"} -> pick("addCollinear")
         [] name \in {"midpoint", "mid"} -> pick("addMidPoint")
         [] name \in {"parallel", "par"} -> pick("addParallel")
         [] name \in {"perpendicular", "perp"} -> pick("addPerpendicular")
         [] name \in {"concentric", "con"} -> pick("addConcentric")
         [] name \in {"tangent", "tan"} -> pick("addTangent")
         [] name \in {"symmetry", "sym"} -> pick("addSymmetry")
         [] name \in {"smooth", "s"} -> pick("addSmooth")
         [] OTHER -> "none"

C21_DocumentedConstraintApplied ==
    apiCall.op = "geometric" =>
        LET m == DocumentedMethod(LowerName(apiCall.constraintType), apiCall.arg.objs)
        IN m /= "none" =>
             /\ apiCall.fault = "none"
             /\ apiCall.applied = <<Constraint(m, apiCall.arg.objs)>>
             /\ apiCall.ret = Constraint(m, apiCall.arg.objs)


-----------------------------------------------------------------------------
(* C29: Case.buildCase, for every case name, first creates the four user    *)
(* parameters MaterialThickness, <name>Width, <name>Length and <name>Height *)
(* with the values of the case, then the sketch of the base plate with a    *)
(* rectangle dimensioned by the width and length parameters, then extrudes  *)
(* it by the material thickness parameter, in this order.                   *)

ExpectedCaseLog ==
    LET n == caseRun.name.s
    IN <<LibCall("create_UserParameter", ParamName("", "MaterialThickness"),
                 caseRun.materialThickness, NoName),
         LibCall("create_UserParameter", ParamName(n, "Width"), caseRun.width, NoName),
         LibCall("create_UserParameter", ParamName(n, "Length"), caseRun.length, NoName),
         LibCall("create_UserParameter", ParamName(n, "Height"), caseRun.height, NoName),
         LibCall("EZSketch", NoName, 0, NoName),
         LibCall("rectangle", ParamName(n, "Width"), 0, ParamName(n, "Length")),
         LibCall("EZFeatures", NoName, 0, NoName),
         LibCall("extrude", ParamName("", "MaterialThickness"), 0, NoName)>>

C29_ParametersSketchExtrude ==
    caseRun.pc \in {"done", "fault"} =>
        /\ caseRun.fault = "none"
        /\ caseRun.log = ExpectedCaseLog

====
